---- MODULE Spec2Model ----
(***************************************************************************)
(* A model of the Double Ratchet session engine of libsignal (TypeScript): *)
(* the per-bucket job queue (utils/queue-job.ts), SessionEntry,            *)
(* SessionRecord, SessionBuilder and SessionCipher.                        *)
(*                                                                         *)
(* Cryptographic values are symbolic terms.  A key pair is an integer id   *)
(* that stands for both of its halves; DH(pub, priv) is the unordered pair *)
(* of the two ids, HKDF and HMAC outputs are terms that name their inputs, *)
(* so two derived keys are equal exactly when they were derived from equal *)
(* inputs.                                                                 *)
(***************************************************************************)
EXTENDS Integers, Sequences, FiniteSets, TLC

(***************************************************************************)
(* Program constants.                                                      *)
(***************************************************************************)
CLOSED_SESSIONS_MAX == 40
MAX_MESSAGE_KEYS_GAP == 2000
VERSION == 3
_gcLimit == 10000

BaseKeyType == [OURS |-> 1, THEIRS |-> 2]
ChainType == [SENDING |-> 1, RECEIVING |-> 2]

(***************************************************************************)
(* Bounds of the model.                                                    *)
(***************************************************************************)
MaxSent == 2          \* encrypt calls logged per endpoint
MaxRecv == 2          \* decrypt calls logged per endpoint
MaxInit == 1          \* initOutgoing calls in Spec
MaxFlips == 1         \* changes of the trust store's answer
MaxClose == 1         \* closeOpenSession calls
RetentionInits == 42  \* initOutgoing calls in SpecRetention
MaxJobs == 3          \* jobs submitted per bucket in SpecQueue

Endpoints == {"A", "B"}
Peer(e) == IF e = "A" THEN "B" ELSE "A"

(***************************************************************************)
(* Key material.  Long-term keys have fixed ids; generateKeyPair() yields  *)
(* the next unused id of the calling endpoint.                             *)
(***************************************************************************)
NoKey == 0
IdentityKey(e) == IF e = "A" THEN 1 ELSE 2
SignedPreKeyPair(e) == IF e = "A" THEN 3 ELSE 4
PreKeyPair(e) == IF e = "A" THEN 5 ELSE 6
SignedPreKeyId(e) == IF e = "A" THEN 1 ELSE 42
PreKeyId(e) == 7
RegistrationId(e) == IF e = "A" THEN 1001 ELSE 1002
GenBase(e) == IF e = "A" THEN 100 ELSE 200

generateKeyPair(e, n) == GenBase(e) + n

\* An agreement that depends on which key pair gave the public key.
orderedAgreement(pubKey, privKey) == <<pubKey, privKey>>

\* curve.calculateAgreement: X25519 is commutative in the two key pairs.
calculateAgreement(pubKey, privKey) == {pubKey, privKey}


(***************************************************************************)
(* crypto: symbolic terms.                                                 *)
(*   deriveSecrets(input, salt, info): the HKDF output is named by its     *)
(*   salt extended with its input; chunk 0 and chunk 1 of one output are   *)
(*   kept apart by the field they are stored in (rootKey, chainKey.key).   *)
(*   A root key is the sequence of secrets mixed into it so far, a chain   *)
(*   key is [prk, step]: the HKDF output it started from and the number of *)
(*   HMAC(key, 0x02) steps applied, a message key HMAC(key, 0x01) is named *)
(*   by the chain key it was taken from.                                   *)
(***************************************************************************)
ZeroSalt == << >>
deriveSecrets(input, salt) == salt \o input

NoChainKey == [prk |-> << >>, step |-> 0]
\* crypto.calculateMAC(key, Buffer.from([1])): the message key of a chain key.
messageKeyOf(key) == [prk |-> key.prk, step |-> key.step]
\* n applications of crypto.calculateMAC(key, Buffer.from([2])): the chain key
\* n steps on.
chainKeyAfter(key, n) == [prk |-> key.prk, step |-> key.step + n]

\* WhisperMessage.encode / decode of a uint32 field (counter, previousCounter):
\* a negative number comes back as itself plus the modulus.  The modulus of
\* the wire format is 2^32; integers here end at 2^31 - 1, so
\* the modulus here is that, which still puts every wrapped value far above
\* every counter and every gap the code compares it with.
U32 == 2147483647
encodeU32(n) == n % U32

(***************************************************************************)
(* SessionEntry.  chains is a function from ephemeral public keys to       *)
(* chains; chainKey.has tells whether chainKey.key is a Buffer,            *)
(* undefined (deleted in memory) or null (deserialized closed chain).      *)
(***************************************************************************)
NoPendingPreKey == [present |-> FALSE, signedKeyId |-> 0, baseKey |-> NoKey,
                    hasPreKeyId |-> FALSE, preKeyId |-> 0]

hasChain(session, key) == key \in DOMAIN session.chains

\* SessionEntry.addChain: stores a deep clone of value under key.
addChain(session, key, value) ==
    [session EXCEPT !.chains =
        [k \in DOMAIN session.chains \cup {key} |->
            IF k = key THEN value ELSE session.chains[k]]]

\* SessionEntry.getChain: a clone of the stored chain; a chain key that is
\* missing, null or undefined, is undefined in the clone.
getChain(session, key) ==
    [session.chains[key] EXCEPT
        !.chainKey.has = IF @ = "buffer" THEN "buffer" ELSE "undefined"]

\* A getChain that hands out the stored chain: the caller's counter shows in
\* the session.
countedInPlace(session, key, chain) ==
    [session EXCEPT !.chains[key].chainKey.counter = chain.chainKey.counter]

\* What the session holds under key after a caller has changed the chain object
\* that getChain(key) returned into chain: getChain hands out a clone (chainKey,
\* key Buffer and messageKeys are all copied), so the stored chain is untouched.
mutateGotChain(session, key, chain) == session

\* SessionEntry.deleteChain
\* deleteChain that deletes nothing.
keepChain(session, key) == session

deleteChain(session, key) ==
    [session EXCEPT !.chains =
        [k \in DOMAIN session.chains \ {key} |-> session.chains[k]]]

SendingChains(session) ==
    {k \in DOMAIN session.chains :
        session.chains[k].chainType = ChainType.SENDING}

\* fillMessageKeys with an if in place of its while: one step at most.
fillOneKey(chain, counter) ==
    IF counter < 0 THEN [err |-> "TypeError", chain |-> chain]
    ELSE IF ~(chain.chainKey.counter < counter)
    THEN [err |-> "", chain |-> chain]
    ELSE [err |-> "",
          chain |-> [chain EXCEPT
             !.messageKeys =
                 [i \in DOMAIN chain.messageKeys \cup {chain.chainKey.counter + 1}
                    |-> IF i = chain.chainKey.counter + 1
                        THEN messageKeyOf(chain.chainKey.key)
                        ELSE chain.messageKeys[i]],
             !.chainKey.key = chainKeyAfter(chain.chainKey.key, 1),
             !.chainKey.counter = chain.chainKey.counter + 1]]

\* fillMessageKeys without the test of the gap.
fillAnyGap(chain, counter) ==
    LET c0 == chain.chainKey.counter
        k0 == chain.chainKey.key
    IN  IF counter < 0
        THEN [err |-> "TypeError", chain |-> chain]
        ELSE IF ~(c0 < counter)
        THEN [err |-> "", chain |-> chain]
        ELSE IF chain.chainKey.has = "undefined"
        THEN [err |-> "SessionError", chain |-> chain]
        ELSE IF chain.chainKey.has = "null"
        THEN [err |-> "TypeError", chain |-> chain]
        ELSE [err |-> "",
              chain |->
                [chainKey |-> [counter |-> counter,
                               key |-> chainKeyAfter(k0, counter - c0),
                               has |-> chain.chainKey.has],
                 chainType |-> chain.chainType,
                 messageKeys |->
                    [i \in {j \in Int : \/ j \in DOMAIN chain.messageKeys
                                        \/ j \in (c0 + 1) .. counter} |->
                        IF i \in (c0 + 1) .. counter
                        THEN messageKeyOf(chainKeyAfter(k0, i - c0 - 1))
                        ELSE chain.messageKeys[i]]]]

(***************************************************************************)
(* SessionCipher.fillMessageKeys(chain, counter).  The loop derives one    *)
(* key per iteration; the gap and the closed-chain test can only fail in   *)
(* the first iteration (the gap shrinks, the key stays a Buffer), so a     *)
(* failing call leaves the chain as it was.  The counters that have a key  *)
(* afterwards are written as a set of integers by comprehension, so that   *)
(* the keys of a long gap are derived where they are read.                 *)
(***************************************************************************)
fillMessageKeys(chain, counter) ==
    LET c0 == chain.chainKey.counter
        k0 == chain.chainKey.key
    IN  IF counter < 0
        THEN [err |-> "TypeError", chain |-> chain]
        ELSE IF ~(c0 < counter)
        THEN [err |-> "", chain |-> chain]
        ELSE IF counter - c0 > MAX_MESSAGE_KEYS_GAP
        THEN [err |-> "SessionError", chain |-> chain]
        ELSE IF chain.chainKey.has = "undefined"
        THEN [err |-> "SessionError", chain |-> chain]
        ELSE IF chain.chainKey.has = "null"
        THEN [err |-> "TypeError", chain |-> chain]
        ELSE [err |-> "",
              chain |->
                [chainKey |-> [counter |-> counter,
                               key |-> chainKeyAfter(k0, counter - c0),
                               has |-> chain.chainKey.has],
                 chainType |-> chain.chainType,
                 messageKeys |->
                    [i \in {j \in Int : \/ j \in DOMAIN chain.messageKeys
                                        \/ j \in (c0 + 1) .. counter} |->
                        IF i \in (c0 + 1) .. counter
                        THEN messageKeyOf(chainKeyAfter(k0, i - c0 - 1))
                        ELSE chain.messageKeys[i]]]]

\* delete chain.messageKeys[counter]
deleteMessageKey(chain, counter) ==
    [chain EXCEPT !.messageKeys =
        [i \in DOMAIN chain.messageKeys \ {counter} |-> chain.messageKeys[i]]]

NewChain(key, type) ==
    [chainKey |-> [counter |-> -1, key |-> key, has |-> "buffer"],
     chainType |-> type,
     messageKeys |-> [i \in {} |-> NoChainKey]]

(***************************************************************************)
(* SessionCipher.calculateRatchet(session, remoteKey, sending)             *)
(***************************************************************************)
calculateRatchet(session, remoteKey, sending) ==
    LET ratchet == session.currentRatchet
        sharedSecret == calculateAgreement(remoteKey, ratchet.ephemeralKeyPair)
        masterKey == deriveSecrets(<<sharedSecret>>, ratchet.rootKey)
        chainKey == IF sending THEN ratchet.ephemeralKeyPair ELSE remoteKey
        added == addChain(session, chainKey,
                    NewChain([prk |-> masterKey, step |-> 0],
                             IF sending THEN ChainType.SENDING
                                        ELSE ChainType.RECEIVING))
    IN  IF hasChain(session, chainKey)
        THEN [err |-> "Error", session |-> session]
        ELSE [err |-> "",
              session |-> [added EXCEPT !.currentRatchet.rootKey = masterKey]]

(***************************************************************************)
(* SessionCipher.maybeStepRatchet(session, remoteKey, previousCounter);    *)
(* newKeyPair is what curve.generateKeyPair() returns.  stepped tells      *)
(* whether a DH ratchet step was performed.                                *)
(***************************************************************************)
closeChain(chain) ==
    [chain EXCEPT !.chainKey.key = NoChainKey, !.chainKey.has = "undefined"]

maybeStepRatchet(session, remoteKey, previousCounter, newKeyPair) ==
    LET lastRemote == session.currentRatchet.lastRemoteEphemeralKey
        thrown(err) == [err |-> err, session |-> session, stepped |-> FALSE]
        \* ratchet.lastRemoteEphemeralKey = remoteKey
        sendingAdded(r) ==
            IF r.err # "" THEN thrown(r.err)
            ELSE [err |-> "",
                  session |-> [r.session EXCEPT
                      !.currentRatchet.lastRemoteEphemeralKey = remoteKey],
                  stepped |-> TRUE]
        \* ratchet.ephemeralKeyPair = curve.generateKeyPair();
        \* calculateRatchet(session, remoteKey, true)
        rekey(s) ==
            sendingAdded(calculateRatchet(
                [s EXCEPT !.currentRatchet.ephemeralKeyPair = newKeyPair],
                remoteKey, TRUE))
        \* prevCounter = session.getChain(ratchet.ephemeralKeyPair.pubKey) ...
        supersede(s, oldPub) ==
            rekey(IF hasChain(s, oldPub)
                  THEN [deleteChain(s, oldPub) EXCEPT
                            !.currentRatchet.previousCounter =
                                getChain(s, oldPub).chainKey.counter]
                  ELSE s)
        receivingAdded(r) ==
            IF r.err # "" THEN thrown(r.err)
            ELSE supersede(r.session, r.session.currentRatchet.ephemeralKeyPair)
        \* fillMessageKeys(previousRatchet, previousCounter);
        \* delete previousRatchet.chainKey.key
        previousFilled(r) ==
            IF r.err # "" THEN thrown(r.err)
            ELSE receivingAdded(calculateRatchet(
                    mutateGotChain(session, lastRemote, closeChain(r.chain)),
                    remoteKey, FALSE))
    IN  IF previousCounter < 0 THEN thrown("TypeError")
        ELSE IF hasChain(session, remoteKey)
        THEN [err |-> "", session |-> session, stepped |-> FALSE]
        ELSE IF hasChain(session, lastRemote)
        THEN previousFilled(fillMessageKeys(getChain(session, lastRemote),
                                            previousCounter))
        ELSE receivingAdded(calculateRatchet(session, remoteKey, FALSE))

(***************************************************************************)
(* Wire messages.  ciphertext and mac name the message key they were made  *)
(* with; the mac also names the two identity keys of its input.  A type 1  *)
(* message leaves the PreKeyWhisperMessage fields at their defaults.       *)
(***************************************************************************)
NoMessage == [type |-> 0]
NoPlaintext == "none"

macOf(messageKey, senderIdentity, receiverIdentity) ==
    [key |-> messageKey, ids |-> <<senderIdentity, receiverIdentity>>]

\* (number1 << 4) | number2
_encodeTupleByte(number1, number2) == number1 * 16 + number2

\* [byte >> 4, byte & 0xf]
_decodeTupleByte(byte) == <<byte \div 16, byte % 16>>

\* versions[1] > 3 || versions[0] < 3, on the pair decoded from the first byte
incompatibleVersion(byte) ==
    \/ _decodeTupleByte(byte)[2] > 3
    \/ _decodeTupleByte(byte)[1] < 3

WhisperMessage(ephemeralKey, counter, previousCounter, messageKey, data, senderIdentity, receiverIdentity) ==
    [type |-> 1,
     version |-> _encodeTupleByte(VERSION, VERSION),
     ephemeralKey |-> ephemeralKey,
     counter |-> encodeU32(counter),
     previousCounter |-> encodeU32(previousCounter),
     ciphertext |-> [key |-> messageKey, data |-> data],
     mac |-> macOf(messageKey, senderIdentity, receiverIdentity),
     identityKey |-> NoKey, registrationId |-> 0, baseKey |-> NoKey,
     signedPreKeyId |-> 0, hasPreKeyId |-> FALSE, preKeyId |-> 0]

\* An envelope that never wraps: the inner message as it is.
bareEnvelope(message, identityKey, registrationId, pendingPreKey) == message

PreKeyWhisperMessage(message, identityKey, registrationId, pendingPreKey) ==
    [message EXCEPT
        !.type = 3,
        !.identityKey = identityKey,
        !.registrationId = registrationId,
        !.baseKey = pendingPreKey.baseKey,
        !.signedPreKeyId = pendingPreKey.signedKeyId,
        !.hasPreKeyId = pendingPreKey.hasPreKeyId,
        !.preKeyId = pendingPreKey.preKeyId]

(***************************************************************************)
(* SessionCipher.doDecryptWhisperMessage(messageBuffer, session).  The     *)
(* session comes back as the call left it, also when the call throws.      *)
(***************************************************************************)
doDecryptWhisperMessage(message, session, ourIdentity, newKeyPair) ==
    LET thrown(err, s, stepped) ==
            [err |-> err, session |-> s, plaintext |-> NoPlaintext,
             stepped |-> stepped]
        \* crypto.verifyMAC, crypto.decrypt, delete session.pendingPreKey
        verify(s, messageKey, stepped) ==
            IF message.mac # macOf(messageKey, s.indexInfo.remoteIdentityKey,
                                   ourIdentity)
            THEN thrown("Error", s, stepped)
            ELSE [err |-> "",
                  session |-> [s EXCEPT !.pendingPreKey = NoPendingPreKey],
                  plaintext |-> message.ciphertext.data,
                  stepped |-> stepped]
        \* after this.fillMessageKeys(chain, message.counter)
        filled(s, r, stepped) ==
            IF r.err # "" THEN thrown(r.err, s, stepped)
            ELSE IF message.counter \notin DOMAIN r.chain.messageKeys
            THEN thrown("MessageCounterError",
                        mutateGotChain(s, message.ephemeralKey, r.chain),
                        stepped)
            ELSE verify(mutateGotChain(s, message.ephemeralKey,
                            deleteMessageKey(r.chain, message.counter)),
                        r.chain.messageKeys[message.counter], stepped)
        \* after this.maybeStepRatchet(...)
        steppedTo(r) ==
            IF r.err # "" THEN thrown(r.err, r.session, r.stepped)
            ELSE IF ~hasChain(r.session, message.ephemeralKey)
            THEN thrown("SessionError", r.session, r.stepped)
            ELSE IF getChain(r.session, message.ephemeralKey).chainType =
                    ChainType.SENDING
            THEN thrown("Error", r.session, r.stepped)
            ELSE filled(r.session,
                        fillMessageKeys(getChain(r.session,
                                                 message.ephemeralKey),
                                        message.counter),
                        r.stepped)
    IN  IF incompatibleVersion(message.version)
        THEN thrown("Error", session, FALSE)
        ELSE steppedTo(maybeStepRatchet(session, message.ephemeralKey,
                                        message.previousCounter, newKeyPair))

(***************************************************************************)
(* SessionRecord.  sessions is the insertion-ordered map of the record, as *)
(* a sequence; a session's key in the map is its indexInfo.baseKey.        *)
(* exists = FALSE stands for "storage holds no record".                    *)
(***************************************************************************)
NoRecord == [exists |-> FALSE, sessions |-> << >>]
NewRecord == [exists |-> TRUE, sessions |-> << >>]

\* The position of the session stored under key, 0 when there is none.
sessionIndex(record, key) ==
    LET hits == {i \in 1 .. Len(record.sessions) :
                    record.sessions[i].indexInfo.baseKey = key}
    IN  IF hits = {} THEN 0 ELSE CHOOSE i \in hits : TRUE

\* SessionRecord.isClosed
isClosed(session) == session.indexInfo.closed # -1

\* The first session of the record, open or not.
firstSession(record) == IF record.sessions = << >> THEN 0 ELSE 1

\* SessionRecord.getOpenSession: the first open session in insertion order
\* (its position), 0 when there is none.
getOpenSession(record) ==
    LET open == {i \in 1 .. Len(record.sessions) : ~isClosed(record.sessions[i])}
    IN  IF open = {} THEN 0 ELSE CHOOSE i \in open : \A j \in open : i <= j

\* SessionRecord.setSession
setSession(record, session) ==
    LET i == sessionIndex(record, session.indexInfo.baseKey)
    IN  IF i = 0
        THEN [record EXCEPT !.sessions = Append(record.sessions, session)]
        ELSE [record EXCEPT !.sessions[i] = session]

\* SessionRecord.closeSession on the session at position i
closeSession(record, i, now) ==
    IF isClosed(record.sessions[i])
    THEN record
    ELSE [record EXCEPT !.sessions[i].indexInfo.closed = now]

\* SessionRecord.getSessions: positions in descending order of indexInfo.used;
\* Array.prototype.sort is stable, so equal used keep their insertion order.
RECURSIVE sortByUsed(_, _)
sortByUsed(record, left) ==
    IF left = {}
    THEN << >>
    ELSE LET first == CHOOSE i \in left : \A j \in left :
                        \/ record.sessions[i].indexInfo.used >
                           record.sessions[j].indexInfo.used
                        \/ /\ record.sessions[i].indexInfo.used =
                              record.sessions[j].indexInfo.used
                           /\ i <= j
         IN  <<first>> \o sortByUsed(record, left \ {first})

\* The sessions in the order they were put into the record.
insertionOrder(record) == [i \in 1 .. Len(record.sessions) |-> i]

getSessions(record) == sortByUsed(record, 1 .. Len(record.sessions))

RemoveAt(seq, i) == SubSeq(seq, 1, i - 1) \o SubSeq(seq, i + 1, Len(seq))

\* The closed session with the largest closedTime, 0 when none is closed.
newestClosed(sessions) ==
    LET closed == {i \in 1 .. Len(sessions) :
                      /\ sessions[i].indexInfo.closed # 0
                      /\ sessions[i].indexInfo.closed # -1}
    IN  IF closed = {} THEN 0
        ELSE CHOOSE i \in closed : \A j \in closed :
                sessions[i].indexInfo.closed >= sessions[j].indexInfo.closed

\* The closed session that sorts first by closedTime (stable: the earliest
\* inserted among equals), 0 when no session counts as closed.
oldestClosed(sessions) ==
    LET closed == {i \in 1 .. Len(sessions) :
                      /\ sessions[i].indexInfo.closed # 0
                      /\ sessions[i].indexInfo.closed # -1}
    IN  IF closed = {} THEN 0
        ELSE CHOOSE i \in closed : \A j \in closed :
                \/ sessions[i].indexInfo.closed < sessions[j].indexInfo.closed
                \/ /\ sessions[i].indexInfo.closed = sessions[j].indexInfo.closed
                   /\ i <= j

RECURSIVE removeOldest(_, _)
removeOldest(sessions, n) ==
    IF n <= 0 \/ oldestClosed(sessions) = 0
    THEN sessions
    ELSE removeOldest(RemoveAt(sessions, oldestClosed(sessions)), n - 1)

\* SessionRecord.removeOldSessions
removeOldSessions(record) ==
    IF Len(record.sessions) <= CLOSED_SESSIONS_MAX
    THEN record
    ELSE [record EXCEPT !.sessions =
            removeOldest(record.sessions,
                         Len(record.sessions) - CLOSED_SESSIONS_MAX)]

(***************************************************************************)
(* SessionBuilder.initSession and calculateSendingRatchet.  An absent key  *)
(* (no one-time pre-key) is NoKey.  ratchetKeyPair is what the initiator's *)
(* curve.generateKeyPair() returns.                                        *)
(***************************************************************************)
calculateSendingRatchet(session, remoteKey) ==
    LET ratchet == session.currentRatchet
        sharedSecret == calculateAgreement(remoteKey, ratchet.ephemeralKeyPair)
        masterKey == deriveSecrets(<<sharedSecret>>, ratchet.rootKey)
    IN  [addChain(session, ratchet.ephemeralKeyPair,
                  NewChain([prk |-> masterKey, step |-> 0], ChainType.SENDING))
            EXCEPT !.currentRatchet.rootKey = masterKey]

initSession(isInitiator, ourEphemeralKey, ourSignedKeyArg, theirIdentityPubKey, theirEphemeralPubKey, theirSignedPubKeyArg, registrationId, ourIdentityKey, ratchetKeyPair, now) ==
    LET ourSignedKey == IF isInitiator THEN ourEphemeralKey ELSE ourSignedKeyArg
        theirSignedPubKey == IF isInitiator THEN theirSignedPubKeyArg
                             ELSE theirEphemeralPubKey
        a1 == calculateAgreement(theirSignedPubKey, ourIdentityKey)
        a2 == calculateAgreement(theirIdentityPubKey, ourSignedKey)
        a3 == calculateAgreement(theirSignedPubKey, ourSignedKey)
        a4 == IF ourEphemeralKey # NoKey /\ theirEphemeralPubKey # NoKey
              THEN <<calculateAgreement(theirEphemeralPubKey, ourEphemeralKey)>>
              ELSE << >>
        sharedSecret == (IF isInitiator THEN <<a1, a2>> ELSE <<a2, a1>>)
                        \o <<a3>> \o a4
        masterKey == deriveSecrets(sharedSecret, ZeroSalt)
        session ==
            [registrationId |-> registrationId,
             currentRatchet |->
                [rootKey |-> masterKey,
                 ephemeralKeyPair |-> IF isInitiator THEN ratchetKeyPair
                                      ELSE ourSignedKey,
                 lastRemoteEphemeralKey |-> theirSignedPubKey,
                 previousCounter |-> 0],
             indexInfo |->
                [created |-> now,
                 used |-> now,
                 remoteIdentityKey |-> theirIdentityPubKey,
                 baseKey |-> IF isInitiator THEN ourEphemeralKey
                             ELSE theirEphemeralPubKey,
                 baseKeyType |-> IF isInitiator THEN BaseKeyType.OURS
                                 ELSE BaseKeyType.THEIRS,
                 closed |-> -1],
             chains |-> [k \in {} |-> NewChain(NoChainKey, 0)],
             pendingPreKey |-> NoPendingPreKey]
    IN  IF isInitiator
        THEN calculateSendingRatchet(session, theirSignedPubKey)
        ELSE session


(***************************************************************************)
(* Handlers of SessionCipher and SessionBuilder as functions of what they  *)
(* read (the loaded record, the trust store's answer, the clock, the next  *)
(* key pair) to what they do: err is the name of the error thrown ("" for  *)
(* a normal return), stored the records passed to storage.storeSession in  *)
(* order, removed the ids passed to storage.removePreKey, asked the        *)
(* answers isTrustedIdentity gave, generated the key pairs drawn.          *)
(***************************************************************************)
Outcome(err, stored, removed, asked, generated, plaintext, message, stepped, priorEphemeral, baseKey) ==
    [err |-> err, stored |-> stored, removed |-> removed, asked |-> asked,
     generated |-> generated, plaintext |-> plaintext, message |-> message,
     stepped |-> stepped, priorEphemeral |-> priorEphemeral,
     baseKey |-> baseKey]

Failure(err, asked, generated) ==
    Outcome(err, << >>, {}, asked, generated, NoPlaintext, NoMessage, FALSE,
            NoKey, NoKey)

\* SessionCipher.storeRecord: the record storage.storeSession receives
storeRecord(record) == removeOldSessions(record)

\* SessionBuilder.initOutgoing (the job it queues).  device is the peer's
\* bundle; device.signatureValid is what curve.verifySignature finds.
initOutgoing(loaded, device, who, trustAnswer, generated, now) ==
    LET baseKey == generateKeyPair(who, generated + 1)
        ratchetKey == generateKeyPair(who, generated + 2)
        devicePreKey == IF device.hasPreKey THEN device.preKey ELSE NoKey
        created == initSession(TRUE, baseKey, NoKey, device.identityKey,
                               devicePreKey, device.signedPreKey,
                               device.registrationId, IdentityKey(who),
                               ratchetKey, now)
        session == [created EXCEPT !.pendingPreKey =
                        [present |-> TRUE,
                         signedKeyId |-> device.signedPreKeyId,
                         baseKey |-> baseKey,
                         hasPreKeyId |-> device.hasPreKey,
                         preKeyId |-> IF device.hasPreKey THEN device.preKeyId
                                      ELSE 0]]
        open == getOpenSession(loaded)
        record == IF ~loaded.exists THEN NewRecord
                  ELSE IF open # 0 THEN closeSession(loaded, open, now)
                  ELSE loaded
    IN  IF ~trustAnswer
        THEN Failure("UntrustedIdentityKeyError", <<trustAnswer>>, generated)
        ELSE IF ~device.signatureValid
        THEN Failure("Error", <<trustAnswer>>, generated)
        ELSE Outcome("", <<setSession(record, session)>>, {}, <<trustAnswer>>,
                     generated + 2, NoPlaintext, NoMessage, FALSE, NoKey,
                     baseKey)

\* SessionCipher.encrypt (the job it queues)
encrypt(loaded, data, who, trustAnswer, generated) ==
    LET open == getOpenSession(loaded)
        \* the envelope: type 3 while the session has a pendingPreKey
        envelope(session, msg) ==
            IF session.pendingPreKey.present
            THEN PreKeyWhisperMessage(msg, IdentityKey(who),
                                      RegistrationId(who),
                                      session.pendingPreKey)
            ELSE msg
        \* session is the session after the job, chain the chain it filled
        emit(session, ephemeral, chain) ==
            Outcome("",
                    <<storeRecord([loaded EXCEPT !.sessions[open] = session])>>,
                    {}, <<trustAnswer>>, generated, data,
                    envelope(session,
                        WhisperMessage(ephemeral, chain.chainKey.counter,
                            session.currentRatchet.previousCounter,
                            chain.messageKeys[chain.chainKey.counter], data,
                            IdentityKey(who),
                            session.indexInfo.remoteIdentityKey)),
                    FALSE, ephemeral, session.indexInfo.baseKey)
        \* after this.fillMessageKeys(chain, chain.chainKey.counter + 1)
        filled(session, ephemeral, r) ==
            IF r.err # "" THEN Failure(r.err, <<trustAnswer>>, generated)
            ELSE emit(mutateGotChain(session, ephemeral,
                          deleteMessageKey(r.chain, r.chain.chainKey.counter)),
                      ephemeral, r.chain)
        using(session, ephemeral) ==
            IF ~trustAnswer
            THEN Failure("UntrustedIdentityKeyError", <<trustAnswer>>,
                         generated)
            ELSE IF ~hasChain(session, ephemeral)
            THEN Failure("SessionError", <<trustAnswer>>, generated)
            ELSE IF getChain(session, ephemeral).chainType = ChainType.RECEIVING
            THEN Failure("Error", <<trustAnswer>>, generated)
            ELSE filled(session, ephemeral,
                        fillMessageKeys(getChain(session, ephemeral),
                            getChain(session, ephemeral).chainKey.counter + 1))
    IN  IF ~loaded.exists THEN Failure("SessionError", << >>, generated)
        ELSE IF open = 0 THEN Failure("SessionError", << >>, generated)
        ELSE using(loaded.sessions[open],
                   loaded.sessions[open].currentRatchet.ephemeralKeyPair)

\* SessionCipher.decryptWithSessions: order is record.getSessions(); every
\* session tried is left as doDecryptWhisperMessage left it, whether or not
\* it threw; the first that decrypts gets indexInfo.used = Date.now().
RECURSIVE decryptWithSessions(_, _, _, _, _, _, _)
decryptWithSessions(message, record, order, k, who, generated, now) ==
    LET tried(i, r, drawn) ==
            IF r.err = ""
            THEN [err |-> "",
                  record |-> [record EXCEPT
                                 !.sessions[i] = r.session,
                                 !.sessions[i].indexInfo.used = now],
                  index |-> i, plaintext |-> r.plaintext,
                  generated |-> drawn, stepped |-> r.stepped,
                  priorEphemeral |->
                      record.sessions[i].currentRatchet.ephemeralKeyPair]
            ELSE decryptWithSessions(message,
                                     [record EXCEPT !.sessions[i] = r.session],
                                     order, k + 1, who, drawn, now)
        try(i, r) == tried(i, r, IF r.stepped THEN generated + 1 ELSE generated)
    IN  IF k > Len(order)
        THEN [err |-> "SessionError", record |-> record, index |-> 0,
              plaintext |-> NoPlaintext, generated |-> generated,
              stepped |-> FALSE, priorEphemeral |-> NoKey]
        ELSE try(order[k],
                 doDecryptWhisperMessage(message, record.sessions[order[k]],
                                         IdentityKey(who),
                                         generateKeyPair(who, generated + 1)))

\* decryptWhisperMessage with storeRecord moved ahead of the trust check.
storeThenCheckTrust(loaded, message, who, trustAnswer, generated, now) ==
    LET decrypted(result) ==
            IF result.err # ""
            THEN Failure(result.err, << >>, result.generated)
            ELSE Outcome(IF trustAnswer THEN ""
                         ELSE "UntrustedIdentityKeyError",
                         <<storeRecord(result.record)>>, {}, <<trustAnswer>>,
                         result.generated, result.plaintext, NoMessage,
                         result.stepped, result.priorEphemeral,
                         result.record.sessions[result.index].indexInfo.baseKey)
    IN  IF ~loaded.exists THEN Failure("SessionError", << >>, generated)
        ELSE decrypted(decryptWithSessions(message, loaded,
                                           getSessions(loaded), 1, who,
                                           generated, now))

\* SessionCipher.decryptWhisperMessage (the job it queues)
decryptWhisperMessage(loaded, message, who, trustAnswer, generated, now) ==
    LET decrypted(result) ==
            IF result.err # ""
            THEN Failure(result.err, << >>, result.generated)
            ELSE IF ~trustAnswer
            THEN Failure("UntrustedIdentityKeyError", <<trustAnswer>>,
                         result.generated)
            ELSE Outcome("", <<storeRecord(result.record)>>, {},
                         <<trustAnswer>>, result.generated, result.plaintext,
                         NoMessage, result.stepped, result.priorEphemeral,
                         result.record.sessions[result.index].indexInfo.baseKey)
    IN  IF ~loaded.exists THEN Failure("SessionError", << >>, generated)
        ELSE decrypted(decryptWithSessions(message, loaded,
                                           getSessions(loaded), 1, who,
                                           generated, now))

\* initIncoming without the check for a session the handshake already made.
initIncomingAgain(record, message, who, trustAnswer, preKeys, now) ==
    LET hasPair == message.hasPreKeyId /\ message.preKeyId \in preKeys
        open == getOpenSession(record)
        closed == IF open # 0 THEN closeSession(record, open, now) ELSE record
        session == initSession(FALSE,
                               IF hasPair THEN PreKeyPair(who) ELSE NoKey,
                               SignedPreKeyPair(who), message.identityKey,
                               message.baseKey, NoKey, message.registrationId,
                               IdentityKey(who), NoKey, now)
    IN  IF ~trustAnswer
        THEN [err |-> "UntrustedIdentityKeyError", record |-> record,
              returned |-> FALSE]
        ELSE [err |-> "", record |-> setSession(closed, session),
              returned |-> message.hasPreKeyId]

\* SessionBuilder.initIncoming: preKeys are the ids storage.loadPreKey
\* finds.  returned tells whether a pre-key id is returned to the caller.
initIncoming(record, message, who, trustAnswer, preKeys, now) ==
    LET found == sessionIndex(record, message.baseKey)
        hasPair == message.hasPreKeyId /\ message.preKeyId \in preKeys
        preKeyPair == IF hasPair THEN PreKeyPair(who) ELSE NoKey
        open == getOpenSession(record)
        closed == IF open # 0 THEN closeSession(record, open, now) ELSE record
        session == initSession(FALSE, preKeyPair, SignedPreKeyPair(who),
                               message.identityKey, message.baseKey, NoKey,
                               message.registrationId, IdentityKey(who),
                               NoKey, now)
        done(err, rec, returned) ==
            [err |-> err, record |-> rec, returned |-> returned]
    IN  IF ~trustAnswer THEN done("UntrustedIdentityKeyError", record, FALSE)
        ELSE IF found # 0
        THEN IF record.sessions[found].indexInfo.baseKeyType = BaseKeyType.OURS
             THEN done("Error", record, FALSE)
             ELSE done("", record, FALSE)
        ELSE IF message.hasPreKeyId /\ message.preKeyId # 0 /\ ~hasPair
        THEN done("PreKeyError", record, FALSE)
        ELSE IF message.signedPreKeyId # SignedPreKeyId(who)
        THEN done("PreKeyError", record, FALSE)
        ELSE done("", setSession(closed, session), message.hasPreKeyId)

\* decryptPreKeyWhisperMessage removing the pre-key initIncoming returned
\* before it decrypts.
removePreKeyFirst(loaded, message, who, trustAnswer, preKeys, generated, now) ==
    LET gone(returned) == IF returned THEN {message.preKeyId} ELSE {}
        decrypted(record, i, returned, r) ==
            IF r.err # ""
            THEN [Failure(r.err, <<trustAnswer>>, generated)
                     EXCEPT !.removed = gone(returned)]
            ELSE Outcome("",
                         <<storeRecord([record EXCEPT !.sessions[i] = r.session])>>,
                         gone(returned), <<trustAnswer>>,
                         IF r.stepped THEN generated + 1 ELSE generated,
                         r.plaintext, NoMessage, r.stepped,
                         record.sessions[i].currentRatchet.ephemeralKeyPair,
                         message.baseKey)
        lookedUp(record, i, returned) ==
            IF i = 0 THEN Failure("SessionError", <<trustAnswer>>, generated)
            ELSE IF record.sessions[i].indexInfo.baseKeyType = BaseKeyType.OURS
            THEN Failure("Error", <<trustAnswer>>, generated)
            ELSE decrypted(record, i, returned,
                     doDecryptWhisperMessage([message EXCEPT !.type = 1],
                         record.sessions[i], IdentityKey(who),
                         generateKeyPair(who, generated + 1)))
        built(r) ==
            IF r.err # "" THEN Failure(r.err, <<trustAnswer>>, generated)
            ELSE lookedUp(r.record, sessionIndex(r.record, message.baseKey),
                          r.returned)
    IN  built(initIncoming(IF loaded.exists THEN loaded ELSE NewRecord,
                           message, who, trustAnswer, preKeys, now))

\* SessionCipher.decryptPreKeyWhisperMessage (the job it queues)
decryptPreKeyWhisperMessage(loaded, message, who, trustAnswer, preKeys, generated, now) ==
    LET \* after this.doDecryptWhisperMessage(preKeyProto.message, session)
        decrypted(record, i, returned, r, drawn) ==
            IF r.err # "" THEN Failure(r.err, <<trustAnswer>>, drawn)
            ELSE Outcome("",
                         <<storeRecord([record EXCEPT !.sessions[i] = r.session])>>,
                         IF returned THEN {message.preKeyId} ELSE {},
                         <<trustAnswer>>, drawn, r.plaintext, NoMessage,
                         r.stepped,
                         record.sessions[i].currentRatchet.ephemeralKeyPair,
                         message.baseKey)
        try(record, i, returned, r) ==
            decrypted(record, i, returned, r,
                      IF r.stepped THEN generated + 1 ELSE generated)
        \* session = record.getSession(preKeyProto.baseKey)
        lookedUp(record, i, returned) ==
            IF i = 0 THEN Failure("SessionError", <<trustAnswer>>, generated)
            ELSE IF record.sessions[i].indexInfo.baseKeyType = BaseKeyType.OURS
            THEN Failure("Error", <<trustAnswer>>, generated)
            ELSE try(record, i, returned,
                     doDecryptWhisperMessage([message EXCEPT !.type = 1],
                         record.sessions[i], IdentityKey(who),
                         generateKeyPair(who, generated + 1)))
        \* after builder.initIncoming(record, preKeyProto)
        built(r) ==
            IF r.err # "" THEN Failure(r.err, <<trustAnswer>>, generated)
            ELSE lookedUp(r.record, sessionIndex(r.record, message.baseKey),
                          r.returned)
    IN  built(initIncoming(IF loaded.exists THEN loaded ELSE NewRecord,
                           message, who, trustAnswer, preKeys, now))

\* SessionCipher.closeOpenSession (the job it queues)
closeOpenSession(loaded, generated, now) ==
    LET open == getOpenSession(loaded)
    IN  IF loaded.exists /\ open # 0
        THEN Outcome("", <<storeRecord(closeSession(loaded, open, now))>>, {},
                     << >>, generated, NoPlaintext, NoMessage, FALSE, NoKey,
                     loaded.sessions[open].indexInfo.baseKey)
        ELSE Failure("", << >>, generated)


(***************************************************************************)
(* queueJob and _asyncQueueExecutor.  A job is known by its place in the   *)
(* order of submission to its bucket.  Its awaitable either throws when    *)
(* called or returns a promise that is fulfilled or rejected later.        *)
(***************************************************************************)
Buckets == {"x", "y"}
Awaitables == {"fulfils", "rejects", "throws"}

NoBucket == [has |-> FALSE, queue |-> << >>]
NoExecutor == [active |-> FALSE, offt |-> 0, limit |-> 0, i |-> 0]

Min(a, b) == IF a < b THEN a ELSE b

\* The promise is resolved whatever the awaitable did.
resolveAlways(job) == [job EXCEPT !.settled = "resolved"]

\* The executor goes on without waiting for the promise.
neverAwaits(job) == TRUE

\* await job.awaitable(): the executor goes on once the promise is settled.
awaited(job) == job.run = "finished"

\* job.resolve / job.reject
settle(job) ==
    [job EXCEPT !.settled = IF job.awaitable = "fulfils" THEN "resolved"
                            ELSE "rejected"]

\* The executor returns and leaves the bucket's entry in the map.
keepEntry(bucketJobs, queue) ==
    [jobs |-> bucketJobs, bucket |-> [has |-> TRUE, queue |-> queue],
     executor |-> NoExecutor]

\* cleanup(): _queueAsyncBuckets.delete(bucket), and the executor returns.
cleanup(bucketJobs, queue) ==
    [jobs |-> bucketJobs, bucket |-> NoBucket, executor |-> NoExecutor]

\* The executor runs the jobs it found when it started and cleans up.
RECURSIVE executeOnce(_, _, _, _, _)
executeOnce(bucketJobs, queue, offt, limit, i) ==
    IF i < limit
    THEN LET job == queue[i + 1]
         IN  IF bucketJobs[job].awaitable = "throws"
             THEN executeOnce([bucketJobs EXCEPT ![job] =
                                  [@ EXCEPT !.run = "finished",
                                            !.settled = "rejected"]],
                              queue, offt, limit, i + 1)
             ELSE [jobs |-> [bucketJobs EXCEPT ![job].run = "inFlight"],
                   bucket |-> [has |-> TRUE, queue |-> queue],
                   executor |-> [active |-> TRUE, offt |-> offt,
                                 limit |-> limit, i |-> i]]
    ELSE [jobs |-> bucketJobs, bucket |-> NoBucket, executor |-> NoExecutor]

\* _asyncQueueExecutor from the head of its for loop at index i, up to the
\* await it stops at or to cleanup(): the bucket's jobs, its map entry and the
\* executor's frame.
RECURSIVE execute(_, _, _, _, _)
execute(bucketJobs, queue, offt, limit, i) ==
    IF i < limit
    THEN LET job == queue[i + 1]
         IN  IF bucketJobs[job].awaitable = "throws"
             THEN execute([bucketJobs EXCEPT ![job] =
                              settle([@ EXCEPT !.run = "finished"])],
                          queue, offt, limit, i + 1)
             ELSE [jobs |-> [bucketJobs EXCEPT ![job].run = "inFlight"],
                   bucket |-> [has |-> TRUE, queue |-> queue],
                   executor |-> [active |-> TRUE, offt |-> offt,
                                 limit |-> limit, i |-> i]]
    ELSE IF limit < Len(queue)
    THEN IF limit >= _gcLimit
         THEN LET rest == SubSeq(queue, limit + 1, Len(queue))
              IN  execute(bucketJobs, rest, 0, Min(Len(rest), _gcLimit), 0)
         ELSE execute(bucketJobs, queue, limit,
                      Min(Len(queue), limit + _gcLimit), limit)
    ELSE cleanup(bucketJobs, queue)

(***************************************************************************)
(* State.  Each endpoint runs the library against its own storage for the  *)
(* one peer address; a job runs to completion before the next of the same  *)
(* address starts, so a handler is one step.                               *)
(***************************************************************************)
VARIABLES
    store,      \* store[e]: the record storage holds at e for the peer
    preKeys,    \* preKeys[e]: the one-time pre-key ids storage holds at e
    trusted,    \* trusted[e]: what isTrustedIdentity answers at e
    now,        \* now[e]: what Date.now() returns at e
    keyCount,   \* keyCount[e]: key pairs curve.generateKeyPair has drawn at e
    sent,       \* sent[e]: what encrypt has returned at e, with its plaintext
    recvLog,    \* recvLog[e]: the decrypt calls made at e, with their result
    lastOp,     \* the last handler that ran and what it did
    inits,      \* initOutgoing calls made
    closes,     \* closeOpenSession calls made
    flips,      \* changes of the trust store's answer
    buckets,    \* _queueAsyncBuckets: bucket -> queue of job ids
    jobs,       \* per bucket, the jobs in submission order
    executor,   \* per bucket, the frame of the running _asyncQueueExecutor
    burst,      \* ciphertexts the peer has emitted on one chain
    prefix,     \* how many of them have been decrypted in order
    early,      \* counters of those handed to decrypt ahead of their turn
    ops,        \* the public calls the application has made, in call order
    records,    \* per address, the calls whose update the stored record holds
    subject,    \* the input handed to a function under examination
    verdict     \* what that function made of it

vars == <<store, preKeys, trusted, now, keyCount, sent, recvLog, lastOp, inits,
          closes, flips, buckets, jobs, executor, burst, prefix, early,
          ops, records, subject, verdict>>

cipherVars == <<store, preKeys, trusted, now, keyCount, sent, recvLog, lastOp,
                inits, closes, flips>>
queueVars == <<buckets, jobs, executor>>
chainVars == <<burst, prefix, early>>
jobVars == <<ops, records>>
pureVars == <<subject, verdict>>

Plaintexts == {"p", "q"}

\* The bundle of endpoint p as a directory hands it out.
Device(p, hasPreKey, signatureValid) ==
    [identityKey |-> IdentityKey(p),
     registrationId |-> RegistrationId(p),
     signedPreKey |-> SignedPreKeyPair(p),
     signedPreKeyId |-> SignedPreKeyId(p),
     signatureValid |-> signatureValid,
     hasPreKey |-> hasPreKey,
     preKey |-> PreKeyPair(p),
     preKeyId |-> PreKeyId(p)]

NoOp ==
    [op |-> "none", who |-> "A", index |-> 0, loaded |-> NoRecord,
     loadedPreKeys |-> {}, outcome |-> Failure("", << >>, 0)]

CipherInit ==
    /\ store = [e \in Endpoints |-> NoRecord]
    /\ preKeys = [e \in Endpoints |-> {PreKeyId(e)}]
    /\ trusted = [e \in Endpoints |-> TRUE]
    /\ now = [e \in Endpoints |-> 1]
    /\ keyCount = [e \in Endpoints |-> 0]
    /\ sent = [e \in Endpoints |-> << >>]
    /\ recvLog = [e \in Endpoints |-> << >>]
    /\ lastOp = NoOp
    /\ inits = 0
    /\ closes = 0
    /\ flips = 0

QueueIdle ==
    /\ buckets = [b \in Buckets |-> NoBucket]
    /\ jobs = [b \in Buckets |-> << >>]
    /\ executor = [b \in Buckets |-> NoExecutor]

ChainIdle ==
    /\ burst = 0
    /\ prefix = 0
    /\ early = {}

JobsIdle ==
    /\ ops = << >>
    /\ records = [b \in Buckets |-> << >>]

NoSubject == [kind |-> "none"]

PureIdle ==
    /\ subject = NoSubject
    /\ verdict = NoSubject

Init == CipherInit /\ QueueIdle /\ ChainIdle /\ JobsIdle /\ PureIdle

\* What a handler run by endpoint e leaves behind.  ticks: the handler reads
\* the clock for what it stores.
Ran(e, op, index, r, ticks) ==
    /\ store' = IF r.stored = << >> THEN store
                ELSE [store EXCEPT ![e] = r.stored[Len(r.stored)]]
    /\ preKeys' = [preKeys EXCEPT ![e] = @ \ r.removed]
    /\ keyCount' = [keyCount EXCEPT ![e] = r.generated]
    /\ now' = [now EXCEPT ![e] = IF ticks /\ r.stored # << >> THEN @ + 1
                                 ELSE @]
    /\ lastOp' = [op |-> op, who |-> e, index |-> index, loaded |-> store[e],
                  loadedPreKeys |-> preKeys[e], outcome |-> r]

\* bundles: the bundles (with a one-time pre-key or not, with a good
\* signature or not) the directory may hand out.
InitOutgoing(e, bundles) ==
    /\ \E hasPreKey \in bundles, signatureValid \in bundles :
          Ran(e, "initOutgoing", 0,
              initOutgoing(store[e],
                           Device(Peer(e), hasPreKey, signatureValid),
                           e, trusted[e], keyCount[e], now[e]),
              TRUE)
    /\ inits' = inits + 1
    /\ UNCHANGED <<trusted, sent, recvLog, closes, flips>>

Encrypt(e) ==
    /\ Len(sent[e]) < MaxSent
    /\ \E data \in Plaintexts :
          /\ Ran(e, "encrypt", Len(sent[e]) + 1,
                 encrypt(store[e], data, e, trusted[e], keyCount[e]), FALSE)
          /\ sent' = IF lastOp'.outcome.err = ""
                     THEN [sent EXCEPT ![e] =
                             Append(@, [message |-> lastOp'.outcome.message,
                                        plaintext |-> data])]
                     ELSE sent
    /\ UNCHANGED <<trusted, recvLog, inits, closes, flips>>

\* Endpoint e is handed message and dispatches on its type.
Receive(e, message, index) ==
    IF message.type = 3
    THEN Ran(e, "decryptPreKeyWhisperMessage", index,
             decryptPreKeyWhisperMessage(store[e], message, e, trusted[e],
                                         preKeys[e], keyCount[e], now[e]),
             TRUE)
    ELSE Ran(e, "decryptWhisperMessage", index,
             decryptWhisperMessage(store[e], message, e, trusted[e],
                                   keyCount[e], now[e]),
             TRUE)

\* The network hands e any ciphertext the peer has emitted, in any order and
\* any number of times.
Deliver(e) ==
    /\ Len(recvLog[e]) < MaxRecv
    /\ \E i \in 1 .. Len(sent[Peer(e)]) :
          /\ Receive(e, sent[Peer(e)][i].message, i)
          /\ recvLog' = [recvLog EXCEPT ![e] =
                           Append(@, [index |-> i,
                                      err |-> lastOp'.outcome.err,
                                      plaintext |-> lastOp'.outcome.plaintext])]
    /\ UNCHANGED <<trusted, sent, inits, closes, flips>>

CloseOpenSession(e) ==
    /\ Ran(e, "closeOpenSession", 0,
           closeOpenSession(store[e], keyCount[e], now[e]), TRUE)
    /\ closes' = closes + 1
    /\ UNCHANGED <<trusted, sent, recvLog, inits, flips>>

\* The application changes its mind about the peer's identity key.
FlipTrust(e) ==
    /\ flips < MaxFlips
    /\ trusted' = [trusted EXCEPT ![e] = ~@]
    /\ flips' = flips + 1
    /\ UNCHANGED <<store, preKeys, now, keyCount, sent, recvLog, lastOp, inits,
                   closes>>

Next ==
    \/ \E e \in Endpoints :
          inits < MaxInit /\ InitOutgoing(e, BOOLEAN)
                          /\ UNCHANGED <<queueVars, chainVars, jobVars, pureVars>>
    \/ \E e \in Endpoints : Encrypt(e) /\ UNCHANGED <<queueVars, chainVars, jobVars, pureVars>>
    \/ \E e \in Endpoints : Deliver(e) /\ UNCHANGED <<queueVars, chainVars, jobVars, pureVars>>
    \/ \E e \in Endpoints :
          closes < MaxClose /\ CloseOpenSession(e)
                            /\ UNCHANGED <<queueVars, chainVars, jobVars, pureVars>>
    \/ \E e \in Endpoints : FlipTrust(e) /\ UNCHANGED <<queueVars, chainVars, jobVars, pureVars>>

Spec == Init /\ [][Next]_vars


(***************************************************************************)
(* Properties of the two-endpoint protocol (Spec).                         *)
(***************************************************************************)
\* The session of endpoint e's stored record kept under baseKey.
StoredSession(e, baseKey) == store[e].sessions[sessionIndex(store[e], baseKey)]
LoadedSession(baseKey) ==
    lastOp.loaded.sessions[sessionIndex(lastOp.loaded, baseKey)]

Decrypted ==
    /\ lastOp.op \in {"decryptWhisperMessage", "decryptPreKeyWhisperMessage"}
    /\ lastOp.outcome.err = ""

\* The session the last handler used was in the record it loaded and had a
\* chain under the ephemeral key it had then.
SupersededSending ==
    /\ sessionIndex(lastOp.loaded, lastOp.outcome.baseKey) # 0
    /\ hasChain(LoadedSession(lastOp.outcome.baseKey),
                lastOp.outcome.priorEphemeral)

\* Only one side called initOutgoing, once, nobody closed a session and the
\* trust store never changed its answer.
PlainHandshake ==
    /\ flips = 0
    /\ closes = 0
    /\ \A e \in Endpoints : Len(store[e].sessions) <= 1

\* The decrypt calls 1 .. k of endpoint e were handed the peer's ciphertexts
\* 1 .. k, in that order.
InOrder(e, k) == \A j \in 1 .. k : recvLog[e][j].index = j

\* C2: successive successful encrypts on one sending chain carry strictly
\* increasing counters, the k-th carrying k-1, and the sending chain's counter
\* in the record encrypt stores is one higher than in the record it loaded.
C2_CountersIncrease ==
    /\ \A e \in Endpoints : \A j \in 1 .. Len(sent[e]) :
          LET onChain == {i \in 1 .. j : sent[e][i].message.ephemeralKey =
                                         sent[e][j].message.ephemeralKey}
          IN  sent[e][j].message.counter = Cardinality(onChain) - 1
    /\ (lastOp.op = "encrypt" /\ lastOp.outcome.err = "") =>
          LET key == lastOp.outcome.priorEphemeral
              baseKey == lastOp.outcome.baseKey
          IN  StoredSession(lastOp.who, baseKey).chains[key].chainKey.counter =
              LoadedSession(baseKey).chains[key].chainKey.counter + 1

\* C3: after a plain handshake every ciphertext delivered in order decrypts
\* to the plaintext that was encrypted, however often the direction of the
\* conversation changes.
C3_RoundTrip ==
    PlainHandshake =>
        \A e \in Endpoints : \A k \in 1 .. Len(recvLog[e]) :
            InOrder(e, k) =>
                /\ recvLog[e][k].err = ""
                /\ recvLog[e][k].plaintext = sent[Peer(e)][k].plaintext

\* C4: a ciphertext that was decrypted (and the record stored) is refused
\* with MessageCounterError when it is handed to decrypt again.
C4_ReplayRejected ==
    \A e \in Endpoints : \A j, k \in 1 .. Len(recvLog[e]) :
        (j < k /\ recvLog[e][j].index = recvLog[e][k].index
               /\ recvLog[e][j].err = "") =>
            /\ recvLog[e][k].err = "MessageCounterError"
            /\ recvLog[e][k].plaintext = NoPlaintext

\* C7: every stored session has exactly one SENDING chain, the one keyed by
\* its current ephemeral key; a decrypt that stepped the DH ratchet left the
\* session with another ephemeral key and without its former sending chain.
C7_OneSendingChain ==
    /\ \A e \in Endpoints : \A i \in 1 .. Len(store[e].sessions) :
          SendingChains(store[e].sessions[i]) =
              {store[e].sessions[i].currentRatchet.ephemeralKeyPair}
    /\ (Decrypted /\ lastOp.outcome.stepped) =>
          LET session == StoredSession(lastOp.who, lastOp.outcome.baseKey)
          IN  /\ session.currentRatchet.ephemeralKeyPair #
                    lastOp.outcome.priorEphemeral
              /\ ~hasChain(session, lastOp.outcome.priorEphemeral)

\* A decrypt stepped the ratchet of a session that had a sending chain.
C7_Witness ==
    /\ Decrypted
    /\ lastOp.outcome.stepped
    /\ SupersededSending

\* C8: after a DH ratchet step previousCounter is the counter of the last
\* message encrypted on the superseded sending chain (n - 1 after n messages),
\* and encrypt never emits a message from a negative previousCounter.
C8_PreviousCounter ==
    /\ (Decrypted /\ lastOp.outcome.stepped /\ SupersededSending) =>
          LET onChain == {i \in 1 .. Len(sent[lastOp.who]) :
                            sent[lastOp.who][i].message.ephemeralKey =
                            lastOp.outcome.priorEphemeral}
          IN  StoredSession(lastOp.who, lastOp.outcome.baseKey)
                  .currentRatchet.previousCounter = Cardinality(onChain) - 1
    /\ (lastOp.op = "encrypt" /\ lastOp.outcome.err = "") =>
          LoadedSession(lastOp.outcome.baseKey)
              .currentRatchet.previousCounter >= 0

\* C9: a handler that isTrustedIdentity answered false fails with
\* UntrustedIdentityKeyError, calls neither storeSession nor removePreKey, and
\* leaves the stored record and pre-keys as they were.
C9_TrustGate ==
    (\E i \in 1 .. Len(lastOp.outcome.asked) : ~lastOp.outcome.asked[i]) =>
        /\ lastOp.outcome.err = "UntrustedIdentityKeyError"
        /\ lastOp.outcome.stored = << >>
        /\ lastOp.outcome.removed = {}
        /\ store[lastOp.who] = lastOp.loaded
        /\ preKeys[lastOp.who] = lastOp.loadedPreKeys

\* decryptWhisperMessage decrypted with a session and was then told that the
\* session's identity key is not trusted.
C9_Witness ==
    /\ lastOp.op = "decryptWhisperMessage"
    /\ lastOp.outcome.asked = <<FALSE>>
    /\ lastOp.loaded.exists


\* A submission starts an executor only when no bucket has an entry.
allIdle(b) == \A c \in Buckets : ~buckets[c].has

\* queueJob: inactive, true when the map has no entry for the bucket.
inactive(b) == ~buckets[b].has

(***************************************************************************)
(* The job queue on its own (SpecQueue): callers submit jobs to buckets,   *)
(* promises settle, executors resume, in any interleaving.                 *)
(***************************************************************************)
QueueJob(b) ==
    /\ Len(jobs[b]) < MaxJobs
    /\ \E awaitable \in Awaitables :
          LET id == Len(jobs[b]) + 1
              queue == Append(buckets[b].queue, id)
              pushed == Append(jobs[b], [awaitable |-> awaitable,
                                         run |-> "queued", settled |-> "no"])
              started == execute(pushed, queue, 0, Min(Len(queue), _gcLimit), 0)
          IN  IF inactive(b)
              THEN /\ jobs' = [jobs EXCEPT ![b] = started.jobs]
                   /\ buckets' = [buckets EXCEPT ![b] = started.bucket]
                   /\ executor' = [executor EXCEPT ![b] = started.executor]
              ELSE /\ jobs' = [jobs EXCEPT ![b] = pushed]
                   /\ buckets' = [buckets EXCEPT ![b].queue = queue]
                   /\ UNCHANGED executor

\* The promise an awaitable returned is fulfilled or rejected.
Finish(b) ==
    /\ \E j \in 1 .. Len(jobs[b]) :
          /\ jobs[b][j].run = "inFlight"
          /\ jobs' = [jobs EXCEPT ![b][j].run = "finished"]
    /\ UNCHANGED <<buckets, executor>>

\* The executor of bucket b resumes after its await.
Resume(b) ==
    /\ executor[b].active
    /\ LET queue == buckets[b].queue
           job == queue[executor[b].i + 1]
       IN  /\ awaited(jobs[b][job])
           /\ LET next == execute([jobs[b] EXCEPT ![job] = settle(@)], queue,
                                  executor[b].offt, executor[b].limit,
                                  executor[b].i + 1)
              IN  /\ jobs' = [jobs EXCEPT ![b] = next.jobs]
                  /\ buckets' = [buckets EXCEPT ![b] = next.bucket]
                  /\ executor' = [executor EXCEPT ![b] = next.executor]

QueueNext ==
    \/ \E b \in Buckets : QueueJob(b) /\ UNCHANGED <<cipherVars, chainVars, jobVars, pureVars>>
    \/ \E b \in Buckets : Finish(b) /\ UNCHANGED <<cipherVars, chainVars, jobVars, pureVars>>
    \/ \E b \in Buckets : Resume(b) /\ UNCHANGED <<cipherVars, chainVars, jobVars, pureVars>>

SpecQueue == Init /\ [][QueueNext]_vars

\* C1: in every bucket a job's awaitable has been started only if every job
\* submitted before it has finished and been settled, so at most one job of a
\* bucket is in flight.
C1_Serialized ==
    \A b \in Buckets :
        /\ \A j \in 1 .. Len(jobs[b]) :
              jobs[b][j].run # "queued" =>
                  \A k \in 1 .. j - 1 : /\ jobs[b][k].run = "finished"
                                        /\ jobs[b][k].settled # "no"
        /\ Cardinality({j \in 1 .. Len(jobs[b]) :
                           jobs[b][j].run = "inFlight"}) <= 1

\* A bucket with a settled job, a job in flight behind it and a job waiting
\* behind that, while the other bucket has a job in flight too.
C1_Witness ==
    \E b \in Buckets :
        /\ Len(jobs[b]) = 3
        /\ jobs[b][1].settled # "no"
        /\ jobs[b][2].run = "inFlight"
        /\ jobs[b][3].run = "queued"
        /\ \E c \in Buckets \ {b} : \E j \in 1 .. Len(jobs[c]) :
              jobs[c][j].run = "inFlight"


(***************************************************************************)
(* One receiving chain (SpecChain).  After the handshake the peer, an      *)
(* implementation of the protocol that numbers its ciphertexts 0, 1, 2, ...*)
(* on its sending chain, emits a burst of them; they reach B in order,     *)
(* except that some are handed over ahead of their turn.                   *)
(***************************************************************************)
BurstSizes == {3, MAX_MESSAGE_KEYS_GAP + 1}
EarlyCounters == {2, MAX_MESSAGE_KEYS_GAP - 1, MAX_MESSAGE_KEYS_GAP}

\* A's open session, the key of its sending chain, and B's side of it.
PeerSession == store["A"].sessions[getOpenSession(store["A"])]
PeerEphemeral == PeerSession.currentRatchet.ephemeralKeyPair
ReceivingChain ==
    store["B"].sessions[sessionIndex(store["B"], PeerSession.indexInfo.baseKey)]
        .chains[PeerEphemeral]

\* The n-th ciphertext of the peer's sending chain: its message key is n
\* chain-key steps on from the chain's first key; its plaintext is n.
PeerCiphertext(n) ==
    WhisperMessage(PeerEphemeral, n, 0,
                   messageKeyOf(chainKeyAfter(
                       PeerSession.chains[PeerEphemeral].chainKey.key, n)),
                   n, IdentityKey("A"), IdentityKey("B"))

RECURSIVE nextUndelivered(_)
nextUndelivered(n) == IF n \in early THEN nextUndelivered(n + 1) ELSE n

ChainHandshake ==
    \/ inits = 0 /\ InitOutgoing("A", BOOLEAN)
    \/ sent["A"] = << >> /\ Encrypt("A")
    \/ recvLog["B"] = << >> /\ Deliver("B")

PeerEmits ==
    /\ burst = 0
    /\ recvLog["B"] # << >>
    /\ recvLog["B"][1].err = ""
    /\ burst' \in BurstSizes
    /\ UNCHANGED <<prefix, early>>

\* B is handed the lowest ciphertext it has not decrypted yet.
DeliverNext ==
    LET n == nextUndelivered(prefix)
    IN  /\ n < burst
        /\ Receive("B", PeerCiphertext(n), n)
        /\ prefix' = IF lastOp'.outcome.err = "" THEN n + 1 ELSE prefix
        /\ UNCHANGED <<trusted, sent, recvLog, inits, closes, flips, burst,
                       early>>

\* B is handed a ciphertext ahead of its turn.
DeliverEarly ==
    \E n \in EarlyCounters :
        /\ n < burst
        /\ n >= prefix
        /\ n \notin early
        /\ Receive("B", PeerCiphertext(n), n)
        /\ early' = IF lastOp'.outcome.err = "" THEN early \cup {n} ELSE early
        /\ UNCHANGED <<trusted, sent, recvLog, inits, closes, flips, burst,
                       prefix>>

ChainNext ==
    \/ ChainHandshake /\ UNCHANGED <<queueVars, chainVars, jobVars, pureVars>>
    \/ PeerEmits /\ UNCHANGED <<cipherVars, queueVars, jobVars, pureVars>>
    \/ DeliverNext /\ UNCHANGED <<queueVars, jobVars, pureVars>>
    \/ DeliverEarly /\ UNCHANGED <<queueVars, jobVars, pureVars>>

SpecChain == Init /\ [][ChainNext]_vars

\* The last handler decrypted (or refused) a ciphertext of the burst; its
\* counter is lastOp.index.
ChainDelivery == burst > 0 /\ lastOp.op = "decryptWhisperMessage"

\* Every ciphertext of the burst below counter c has been decrypted.
AllBelowDecrypted(c) == nextUndelivered(prefix) >= c

\* C5: the first MAX_MESSAGE_KEYS_GAP ciphertexts of a chain each decrypt to
\* their plaintext in whatever order they arrive; a key used for one counter
\* leaves the keys of the other counters as they were.
C5_AnyOrder ==
    (ChainDelivery /\ lastOp.index < MAX_MESSAGE_KEYS_GAP) =>
        /\ lastOp.outcome.err = ""
        /\ lastOp.outcome.plaintext = lastOp.index

\* Counter 0 decrypted after counter MAX_MESSAGE_KEYS_GAP - 1 and counter 2
\* had been decrypted.
C5_Witness ==
    /\ ChainDelivery
    /\ lastOp.outcome.err = ""
    /\ early = {2, MAX_MESSAGE_KEYS_GAP - 1}
    /\ lastOp.index = 0
    /\ prefix = 1

\* C6: fillMessageKeys refuses a counter more than MAX_MESSAGE_KEYS_GAP past
\* the chain's with SessionError and changes nothing, accepts one exactly
\* that far; so a ciphertext too far ahead is refused, and decrypts once the
\* ciphertexts before it have been decrypted.
C6_GapCeiling ==
    /\ burst > 0 =>
          \A c \in MAX_MESSAGE_KEYS_GAP - 2 .. MAX_MESSAGE_KEYS_GAP + 1 :
              LET r == fillMessageKeys(ReceivingChain, c)
                  gap == c - ReceivingChain.chainKey.counter
              IN  /\ gap > MAX_MESSAGE_KEYS_GAP =>
                        r.err = "SessionError" /\ r.chain = ReceivingChain
                  /\ gap = MAX_MESSAGE_KEYS_GAP => r.err = ""
    /\ (ChainDelivery /\ AllBelowDecrypted(lastOp.index)) =>
          lastOp.outcome.err = ""


(***************************************************************************)
(* Retention (SpecRetention).  A starts session after session with the     *)
(* same peer, each initOutgoing closing the session before it; once the    *)
(* record is full it also encrypts and closes the open session.            *)
(***************************************************************************)
Full(e) == Len(store[e].sessions) >= CLOSED_SESSIONS_MAX

RetentionNext ==
    \/ inits < RetentionInits /\ InitOutgoing("A", {TRUE})
                              /\ UNCHANGED <<queueVars, chainVars, jobVars, pureVars>>
    \/ Full("A") /\ Encrypt("A") /\ UNCHANGED <<queueVars, chainVars, jobVars, pureVars>>
    \/ Full("A") /\ closes < MaxClose /\ CloseOpenSession("A")
                 /\ UNCHANGED <<queueVars, chainVars, jobVars, pureVars>>

SpecRetention == Init /\ [][RetentionNext]_vars

\* C10: no record passed to storeSession holds more than CLOSED_SESSIONS_MAX
\* sessions.
C10_AtMostForty ==
    \A i \in 1 .. Len(lastOp.outcome.stored) :
        Len(lastOp.outcome.stored[i].sessions) <= CLOSED_SESSIONS_MAX


(***************************************************************************)
(* SessionRecord on its own (SpecRecord, SpecPrune): an application calls  *)
(* the record's public methods on the record of endpoint A.  SpecRecord    *)
(* starts from new SessionRecord(); SpecPrune starts from a record that    *)
(* already holds BaseSessions sessions, so that a few more setSession      *)
(* calls take it over CLOSED_SESSIONS_MAX.                                 *)
(***************************************************************************)
MaxSets == 3           \* setSession calls
MaxTicks == 1          \* times the clock moves on between calls
MaxCloseCalls == 2     \* closeSession calls
MaxReopens == 1        \* openSession calls

BaseSessions == CLOSED_SESSIONS_MAX - 1
Profiles == {"open", "tied", "descending", "mixed"}

\* SessionRecord.openSession on the session at position i
openSession(record, i) ==
    IF ~isClosed(record.sessions[i])
    THEN record
    ELSE [record EXCEPT !.sessions[i].indexInfo.closed = -1]

\* SessionRecord.removeOldSessions as lines 661-679 have it: evict the closed
\* session with the smallest closed (the first found among equals) while the
\* record holds more than CLOSED_SESSIONS_MAX; throw when none is closed.
RECURSIVE removeOldSessionsLegacy(_)
removeOldSessionsLegacy(record) ==
    IF Len(record.sessions) <= CLOSED_SESSIONS_MAX
    THEN [err |-> "", record |-> record]
    ELSE LET closed == {i \in 1 .. Len(record.sessions) :
                           record.sessions[i].indexInfo.closed # -1}
             oldest == CHOOSE i \in closed : \A j \in closed :
                          \/ record.sessions[i].indexInfo.closed <
                             record.sessions[j].indexInfo.closed
                          \/ /\ record.sessions[i].indexInfo.closed =
                                record.sessions[j].indexInfo.closed
                             /\ i <= j
         IN  IF closed = {}
             THEN [err |-> "Error", record |-> record]
             ELSE removeOldSessionsLegacy(
                      [record EXCEPT !.sessions = RemoveAt(@, oldest)])

\* The session initIncoming would build for a handshake with base key
\* baseKey that names no one-time pre-key.
NewEntry(baseKey, created) ==
    initSession(FALSE, NoKey, SignedPreKeyPair("A"), IdentityKey("B"), baseKey,
                NoKey, RegistrationId("B"), IdentityKey("A"), NoKey, created)

\* A record of BaseSessions sessions set one after the other and then left
\* open, closed in one tick, closed last to first, or every second one closed.
BaseRecord(profile) ==
    [exists |-> TRUE,
     sessions |->
        [i \in 1 .. BaseSessions |->
            [NewEntry(300 + i, 1) EXCEPT !.indexInfo.closed =
                CASE profile = "open" -> -1
                  [] profile = "tied" -> 1
                  [] profile = "descending" -> BaseSessions + 1 - i
                  [] OTHER -> IF i % 2 = 0 THEN i ELSE -1]]]

RecordInit ==
    /\ \E profile \in Profiles :
          store = [e \in Endpoints |->
                      IF e = "A" THEN BaseRecord(profile) ELSE NoRecord]
    /\ preKeys = [e \in Endpoints |-> {PreKeyId(e)}]
    /\ trusted = [e \in Endpoints |-> TRUE]
    /\ now = [e \in Endpoints |-> BaseSessions + 1]
    /\ keyCount = [e \in Endpoints |-> 0]
    /\ sent = [e \in Endpoints |-> << >>]
    /\ recvLog = [e \in Endpoints |-> << >>]
    /\ lastOp = NoOp
    /\ inits = 0
    /\ closes = 0
    /\ flips = 0
    /\ QueueIdle
    /\ ChainIdle
    /\ JobsIdle
    /\ PureIdle

\* The positions the application picks sessions from.
Targets(record) ==
    {1, 2, Len(record.sessions) - 1, Len(record.sessions)}
        \cap (1 .. Len(record.sessions))

\* What a call of a SessionRecord method on A's record leaves behind.
Called(op, index, result, err) ==
    /\ store' = [store EXCEPT !["A"] = result]
    /\ lastOp' = [NoOp EXCEPT !.op = op, !.index = index,
                              !.loaded = store["A"],
                              !.outcome.err = err,
                              !.outcome.stored = <<result>>]
    /\ UNCHANGED <<preKeys, trusted, keyCount, sent, recvLog>>

RecSetSession ==
    /\ inits < MaxSets
    /\ Called("setSession", 0,
              setSession([store["A"] EXCEPT !.exists = TRUE],
                         NewEntry(400 + inits, now["A"])), "")
    /\ inits' = inits + 1
    /\ UNCHANGED <<now, closes, flips>>

RecCloseSession ==
    \E i \in Targets(store["A"]), tick \in {0, 1} :
        /\ closes < MaxCloseCalls
        /\ now["A"] + tick <= BaseSessions + 1 + MaxTicks
        /\ Called("closeSession", i, closeSession(store["A"], i, now["A"]), "")
        /\ now' = [now EXCEPT !["A"] = @ + tick]
        /\ closes' = closes + 1
        /\ UNCHANGED <<inits, flips>>

RecOpenSession ==
    \E i \in Targets(store["A"]) :
        /\ flips < MaxReopens
        /\ Called("openSession", i, openSession(store["A"], i), "")
        /\ flips' = flips + 1
        /\ UNCHANGED <<now, inits, closes>>

RecRemoveOldSessions ==
    /\ lastOp.op \notin {"removeOldSessions", "removeOldSessionsLegacy"}
    /\ \/ Called("removeOldSessions", 0, removeOldSessions(store["A"]), "")
       \/ LET r == removeOldSessionsLegacy(store["A"])
          IN  Called("removeOldSessionsLegacy", 0, r.record, r.err)
    /\ UNCHANGED <<now, inits, closes, flips>>

RecordNext ==
    \/ RecSetSession /\ UNCHANGED <<queueVars, chainVars, jobVars, pureVars>>
    \/ RecCloseSession /\ UNCHANGED <<queueVars, chainVars, jobVars, pureVars>>
    \/ RecOpenSession /\ UNCHANGED <<queueVars, chainVars, jobVars, pureVars>>
    \/ RecRemoveOldSessions /\ UNCHANGED <<queueVars, chainVars, jobVars, pureVars>>

SpecRecord == Init /\ [][RecordNext]_vars
SpecPrune == RecordInit /\ [][RecordNext]_vars


(***************************************************************************)
(* Properties of SessionRecord (SpecRecord, SpecPrune).                    *)
(***************************************************************************)
\* The record a pruning call was made on and the record it left.
Pruned == lastOp.op \in {"removeOldSessions", "removeOldSessionsLegacy"}
Before == lastOp.loaded.sessions
After == lastOp.outcome.stored[1].sessions
BaseKeys(sessions) ==
    {sessions[i].indexInfo.baseKey : i \in 1 .. Len(sessions)}
ClosedIn(sessions) ==
    {i \in 1 .. Len(sessions) : sessions[i].indexInfo.closed # -1}
Evicted ==
    {i \in 1 .. Len(Before) : Before[i].indexInfo.baseKey \notin BaseKeys(After)}

\* C11: removeOldSessions on a record of n > CLOSED_SESSIONS_MAX sessions, at
\* least n - CLOSED_SESSIONS_MAX of them closed, leaves CLOSED_SESSIONS_MAX
\* sessions; the n - CLOSED_SESSIONS_MAX it evicts are closed, no surviving
\* closed session was closed before an evicted one, and the survivors are as
\* they were.
C11_EvictsOldest ==
    (/\ lastOp.op = "removeOldSessions"
     /\ Len(Before) > CLOSED_SESSIONS_MAX
     /\ Cardinality(ClosedIn(Before)) >= Len(Before) - CLOSED_SESSIONS_MAX)
    => /\ Len(After) = CLOSED_SESSIONS_MAX
       /\ Cardinality(Evicted) = Len(Before) - CLOSED_SESSIONS_MAX
       /\ Evicted \subseteq ClosedIn(Before)
       /\ \A i \in Evicted : \A j \in ClosedIn(After) :
             After[j].indexInfo.closed >= Before[i].indexInfo.closed
       /\ \A j \in 1 .. Len(After) : \E i \in 1 .. Len(Before) :
             After[j] = Before[i]

\* A pruning of a record two over the limit that evicted a session while a
\* session inserted before it, closed later, stayed.
C11_Witness ==
    /\ lastOp.op = "removeOldSessions"
    /\ Len(Before) = CLOSED_SESSIONS_MAX + 2
    /\ Len(After) = CLOSED_SESSIONS_MAX
    /\ \E i \in Evicted : \E j \in ClosedIn(Before) \ Evicted :
          /\ j < i
          /\ Before[j].indexInfo.closed > Before[i].indexInfo.closed

\* C12: pruning never evicts a session whose closed is -1, and on a record of
\* more than CLOSED_SESSIONS_MAX sessions none of which is closed it returns
\* normally and leaves the record as it was.
C12_OpenNeverEvicted ==
    Pruned =>
        /\ Evicted \subseteq ClosedIn(Before)
        /\ (Len(Before) > CLOSED_SESSIONS_MAX /\ ClosedIn(Before) = {}) =>
              (lastOp.outcome.err = "" /\ After = Before)

\* C13: a record never holds two sessions whose closed is -1.
C13_AtMostOneOpen ==
    \A e \in Endpoints :
        Cardinality({i \in 1 .. Len(store[e].sessions) :
                        ~isClosed(store[e].sessions[i])}) <= 1


(***************************************************************************)
(* Properties of the handshake on the responder's side (Spec).             *)
(***************************************************************************)
\* The message the last decrypt call was handed.
Delivered == sent[Peer(lastOp.who)][lastOp.index].message
\* The last call was decryptPreKeyWhisperMessage on a record that already
\* had a session under the message's base key.
Redelivered ==
    /\ lastOp.op = "decryptPreKeyWhisperMessage"
    /\ sessionIndex(lastOp.loaded, Delivered.baseKey) # 0

\* C14: a PreKeyWhisperMessage whose base key already names a session of the
\* record removes no pre-key, adds no session, closes no session, and, when
\* the record is stored, leaves the session under that base key as it was.
C14_RetainedHandshake ==
    Redelivered =>
        /\ lastOp.outcome.removed = {}
        /\ preKeys[lastOp.who] = lastOp.loadedPreKeys
        /\ lastOp.outcome.stored # << >> =>
              LET after == lastOp.outcome.stored[1]
              IN  /\ Len(after.sessions) = Len(lastOp.loaded.sessions)
                  /\ \A i \in 1 .. Len(after.sessions) :
                        after.sessions[i].indexInfo =
                            lastOp.loaded.sessions[i].indexInfo
                  /\ after.sessions[sessionIndex(after, Delivered.baseKey)] =
                        LoadedSession(Delivered.baseKey)

\* The second delivery of a handshake that named a one-time pre-key: the
\* pre-key is gone from storage, the message decrypts and the record is
\* stored.
C14_Witness ==
    /\ Redelivered
    /\ Delivered.hasPreKeyId
    /\ Delivered.preKeyId \notin lastOp.loadedPreKeys
    /\ lastOp.outcome.err = ""
    /\ lastOp.outcome.stored # << >>


(***************************************************************************)
(* The handshake over a network that may alter what it carries             *)
(* (SpecHandshake): besides the ciphertexts the peer emitted, an endpoint  *)
(* is handed copies of them whose MAC no longer matches.                   *)
(***************************************************************************)
\* message with the 8 MAC bytes at its end replaced.
Forged(message) ==
    [message EXCEPT !.mac = macOf(messageKeyOf(NoChainKey), NoKey, NoKey)]

DeliverForged(e) ==
    /\ Len(recvLog[e]) < MaxRecv
    /\ \E i \in 1 .. Len(sent[Peer(e)]) :
          /\ Receive(e, Forged(sent[Peer(e)][i].message), i)
          /\ recvLog' = [recvLog EXCEPT ![e] =
                           Append(@, [index |-> i,
                                      err |-> lastOp'.outcome.err,
                                      plaintext |-> lastOp'.outcome.plaintext])]
    /\ UNCHANGED <<trusted, sent, inits, closes, flips>>

HandshakeNext ==
    \/ inits < MaxInit /\ InitOutgoing("A", BOOLEAN)
                       /\ UNCHANGED <<queueVars, chainVars, jobVars, pureVars>>
    \/ \E e \in Endpoints : Encrypt(e) /\ UNCHANGED <<queueVars, chainVars, jobVars, pureVars>>
    \/ \E e \in Endpoints : Deliver(e) /\ UNCHANGED <<queueVars, chainVars, jobVars, pureVars>>
    \/ \E e \in Endpoints :
          DeliverForged(e) /\ UNCHANGED <<queueVars, chainVars, jobVars, pureVars>>
    \/ FlipTrust("B") /\ UNCHANGED <<queueVars, chainVars, jobVars, pureVars>>

SpecHandshake == Init /\ [][HandshakeNext]_vars

C16_TypeTags ==
    \A e \in Endpoints : \A k \in 1 .. Len(sent[e]) :
        sent[e][k].message.type = 3 =>
            \A j \in 1 .. k - 1 :
                sent[e][j].message.baseKey # sent[e][k].message.baseKey


(***************************************************************************)
(* Properties of the job queue (SpecQueue, SpecQueueFair).                 *)
(***************************************************************************)
Unsettled(b) == {j \in 1 .. Len(jobs[b]) : jobs[b][j].settled = "no"}

\* C17: a job's promise is settled with the outcome of its own awaitable,
\* only after the awaitable has finished, and a job behind a settled job
\* (rejected or not) in the same bucket has been started.
C17_OwnOutcome ==
    \A b \in Buckets : \A j \in 1 .. Len(jobs[b]) :
        /\ jobs[b][j].settled = "resolved" => jobs[b][j].awaitable = "fulfils"
        /\ jobs[b][j].settled = "rejected" =>
              jobs[b][j].awaitable \in {"rejects", "throws"}
        /\ jobs[b][j].settled # "no" =>
              /\ jobs[b][j].run = "finished"
              /\ j < Len(jobs[b]) => jobs[b][j + 1].run # "queued"

\* A bucket whose first job rejected, whose second threw and whose third,
\* queued behind them, was resolved.
C17_Witness ==
    \E b \in Buckets :
        /\ Len(jobs[b]) = 3
        /\ jobs[b][1].awaitable = "rejects" /\ jobs[b][1].settled = "rejected"
        /\ jobs[b][2].awaitable = "throws" /\ jobs[b][2].settled = "rejected"
        /\ jobs[b][3].settled = "resolved"

\* Every promise an awaitable returned settles, and an executor that can
\* resume does.
QueueFairness ==
    \A b \in Buckets :
        /\ WF_vars(Finish(b) /\ UNCHANGED <<cipherVars, chainVars, jobVars, pureVars>>)
        /\ WF_vars(Resume(b) /\ UNCHANGED <<cipherVars, chainVars, jobVars, pureVars>>)

SpecQueueFair == SpecQueue /\ QueueFairness

\* C18: every submitted job is eventually settled, and a job whose awaitable
\* has been started is never started again.
C18_NoJobLost ==
    /\ \A b \in Buckets : \A k \in 1 .. MaxJobs :
          (Len(jobs[b]) >= k) ~>
              (Len(jobs[b]) >= k /\ jobs[b][k].settled # "no")
    /\ [][\A b \in Buckets : \A j \in 1 .. Len(jobs[b]) :
             /\ jobs[b][j].run = "inFlight" => jobs'[b][j].run # "queued"
             /\ jobs[b][j].run = "finished" => jobs'[b][j].run = "finished"
             /\ jobs[b][j].settled # "no" => jobs'[b][j] = jobs[b][j]]_vars

\* One bucket's executor has gone round its loop again for a job submitted
\* while it was waiting for the last job it knew of; the other bucket's
\* executor was started afresh after its queue had drained and its entry was
\* deleted.
C18_Witness ==
    \E b \in Buckets : \E c \in Buckets \ {b} :
        /\ executor[b].active /\ executor[b].offt > 0
        /\ executor[c].active
        /\ Len(buckets[c].queue) < Len(jobs[c])
        /\ jobs[c][1].settled # "no"

\* C19: the map has an entry for a bucket exactly while the bucket's executor
\* is active, and exactly while one of the bucket's jobs is unsettled; the
\* entry's queue ends with the jobs that are unsettled.
C19_EntryWhileActive ==
    \A b \in Buckets :
        /\ buckets[b].has <=> executor[b].active
        /\ buckets[b].has <=> Unsettled(b) # {}
        /\ ~buckets[b].has => buckets[b].queue = << >>
        /\ \A j \in Unsettled(b) :
              \E i \in 1 .. Len(buckets[b].queue) : buckets[b].queue[i] = j

\* A bucket whose entry was deleted when its first job settled and which has
\* an entry again, with a queue of its own, for a job submitted later.
C19_Witness ==
    \E b \in Buckets :
        /\ buckets[b].has
        /\ buckets[b].queue = <<2>>
        /\ jobs[b][1].settled # "no"
        /\ jobs[b][2].run = "inFlight"

\* C20: a job waits only behind an unsettled job of its own bucket, whatever
\* the other buckets are doing.
C20_BucketsIndependent ==
    \A b \in Buckets : \A j \in 1 .. Len(jobs[b]) :
        jobs[b][j].run = "queued" =>
            \E k \in 1 .. j - 1 : jobs[b][k].settled = "no"

\* A job of one bucket is in flight while a job of the other bucket has run
\* and been resolved and a second one there is in flight.
C20_Witness ==
    \E b \in Buckets : \E c \in Buckets \ {b} :
        /\ Len(jobs[b]) = 1
        /\ jobs[b][1].run = "inFlight"
        /\ Len(jobs[c]) >= 2
        /\ jobs[c][1].awaitable = "fulfils"
        /\ jobs[c][1].settled = "resolved"
        /\ jobs[c][2].run = "inFlight"


(***************************************************************************)
(* Calls on one address from several instances (SpecJobs).  A public      *)
(* method is a run of Storage calls, each an await: some before the        *)
(* method enters its queued job, the rest inside it.  A call is pending    *)
(* from the moment it is made until its promise resolves; calls of         *)
(* different methods resolve in any order.                                  *)
(***************************************************************************)
MaxOps == 3

OpKinds ==
    {"initOutgoing", "encrypt", "decryptWhisperMessage",
     "decryptPreKeyWhisperMessage", "closeOpenSession"}

\* Every instance keeps a queue of its own.
bucketPerInstance(instance, address) == IF instance % 2 = 1 THEN "x" ELSE "y"

\* queueJob(this.addr.toString(), awaitable): the bucket is the address's
\* string, whichever instance makes the call.
bucketKey(instance, address) == address

initOutgoingCalls ==
    [outside |-> << >>,
     inside |-> <<"isTrustedIdentity", "getOurIdentity", "loadSession",
                  "storeSession">>]

encryptCalls ==
    [outside |-> <<"getOurIdentity">>,
     inside |-> <<"loadSession", "isTrustedIdentity", "storeSession",
                  "getOurRegistrationId">>]

decryptWhisperMessageCalls ==
    [outside |-> << >>,
     inside |-> <<"loadSession", "getOurIdentity", "isTrustedIdentity",
                  "storeSession">>]

decryptPreKeyWhisperMessageCalls ==
    [outside |-> << >>,
     inside |-> <<"loadSession", "isTrustedIdentity", "loadPreKey",
                  "loadSignedPreKey", "getOurIdentity", "getOurIdentity",
                  "storeSession", "removePreKey">>]

closeOpenSessionCalls ==
    [outside |-> << >>, inside |-> <<"loadSession", "storeSession">>]

hasOpenSessionCalls == [outside |-> << >>, inside |-> <<"loadSession">>]

Calls(kind) ==
    CASE kind = "initOutgoing" -> initOutgoingCalls
      [] kind = "encrypt" -> encryptCalls
      [] kind = "decryptWhisperMessage" -> decryptWhisperMessageCalls
      [] kind = "decryptPreKeyWhisperMessage" ->
             decryptPreKeyWhisperMessageCalls
      [] kind = "closeOpenSession" -> closeOpenSessionCalls
      [] kind = "hasOpenSession" -> hasOpenSessionCalls

\* The job of a method that throws right after its first Storage call
\* ('No sessions', an untrusted identity) makes no further call.
InsideCalls(op) ==
    IF op.throws THEN SubSeq(Calls(op.kind).inside, 1, 1)
    ELSE Calls(op.kind).inside

\* queueJob(bucket, awaitable): push the job, start an executor when the
\* bucket has none.
queueJob(b, awaitable) ==
    LET id == Len(jobs[b]) + 1
        queue == Append(buckets[b].queue, id)
        pushed == Append(jobs[b], [awaitable |-> awaitable, run |-> "queued",
                                   settled |-> "no"])
    IN  IF inactive(b)
        THEN execute(pushed, queue, 0, Min(Len(queue), _gcLimit), 0)
        ELSE [jobs |-> pushed, bucket |-> [buckets[b] EXCEPT !.queue = queue],
              executor |-> executor[b]]

\* The method of call k enters its queued job.
Enters(k, op) ==
    LET b == bucketKey(k, op.address)
        queued == queueJob(b, IF op.throws THEN "rejects" ELSE "fulfils")
    IN  /\ ops' = IF k > Len(ops)
                  THEN Append(ops, [op EXCEPT !.where = "job", !.pc = 1,
                                              !.bucket = b,
                                              !.job = Len(jobs[b]) + 1])
                  ELSE [ops EXCEPT ![k] = [op EXCEPT !.where = "job", !.pc = 1,
                                                     !.bucket = b,
                                                     !.job = Len(jobs[b]) + 1]]
        /\ jobs' = [jobs EXCEPT ![b] = queued.jobs]
        /\ buckets' = [buckets EXCEPT ![b] = queued.bucket]
        /\ executor' = [executor EXCEPT ![b] = queued.executor]

\* The application calls a public method on a fresh instance for an address.
CallOp(kind, address, throws) ==
    /\ Len(ops) < MaxOps
    /\ LET k == Len(ops) + 1
           op == [kind |-> kind, address |-> address, throws |-> throws,
                  where |-> "outside", pc |-> 1, bucket |-> address,
                  job |-> 0, loaded |-> << >>]
       IN  IF Calls(kind).outside = << >>
           THEN Enters(k, op) /\ UNCHANGED records
           ELSE /\ ops' = Append(ops, op)
                /\ UNCHANGED <<queueVars, records>>

\* What call k would wait for were initIncoming to queue a job of its own
\* on the address and decryptPreKeyWhisperMessage's job to await it: behind
\* the running job the queued one never starts.
awaitsOwnBucket(k) ==
    LET op == ops[k]
    IN  IF op.where = "outside" THEN Calls(op.kind).outside[op.pc]
        ELSE IF /\ op.where = "job"
                /\ jobs[op.bucket][op.job].run = "inFlight"
                /\ ~(op.kind = "decryptPreKeyWhisperMessage" /\ op.pc = 2)
        THEN InsideCalls(op)[op.pc]
        ELSE "none"

\* The Storage call that call k of the application is waiting for.
Pending(k) ==
    LET op == ops[k]
    IN  IF op.where = "outside" THEN Calls(op.kind).outside[op.pc]
        ELSE IF /\ op.where = "job"
                /\ jobs[op.bucket][op.job].run = "inFlight"
        THEN InsideCalls(op)[op.pc]
        ELSE "none"

\* The Storage call that call k waits for returns, and the method runs on to
\* its next await or to its end.
Returns(k) ==
    LET op == ops[k]
        call == Pending(k)
    IN  /\ call # "none"
        /\ IF op.where = "outside"
           THEN IF op.pc < Len(Calls(op.kind).outside)
                THEN /\ ops' = [ops EXCEPT ![k].pc = op.pc + 1]
                     /\ UNCHANGED <<queueVars, records>>
                ELSE Enters(k, op) /\ UNCHANGED records
           ELSE /\ records' =
                      IF call = "storeSession"
                      THEN [records EXCEPT ![op.address] = Append(op.loaded, k)]
                      ELSE records
                /\ LET read == IF call = "loadSession"
                               THEN [op EXCEPT !.loaded = records[op.address]]
                               ELSE op
                   IN  IF op.pc < Len(InsideCalls(op))
                       THEN /\ ops' = [ops EXCEPT
                                          ![k] = [read EXCEPT !.pc = op.pc + 1]]
                            /\ UNCHANGED queueVars
                       ELSE /\ ops' = [ops EXCEPT
                                          ![k] = [read EXCEPT !.where = "done"]]
                            /\ jobs' = [jobs EXCEPT
                                           ![op.bucket][op.job].run = "finished"]
                            /\ UNCHANGED <<buckets, executor>>

JobsNext ==
    \/ \E kind \in OpKinds, address \in Buckets, throws \in BOOLEAN :
          CallOp(kind, address, throws)
          /\ UNCHANGED <<cipherVars, chainVars, pureVars>>
    \/ \E k \in 1 .. Len(ops) :
          Returns(k) /\ UNCHANGED <<cipherVars, chainVars, pureVars>>
    \/ \E b \in Buckets :
          Resume(b) /\ UNCHANGED <<cipherVars, chainVars, jobVars, pureVars>>

SpecJobs == Init /\ [][JobsNext]_vars

\* Where in a run of calls the named one stands, 0 when it is not there.
Position(calls, name) ==
    IF \E i \in 1 .. Len(calls) : calls[i] = name
    THEN CHOOSE i \in 1 .. Len(calls) : calls[i] = name
    ELSE 0

\* Call k is between making its loadSession call and the return of its
\* storeSession call (or its end, when it throws before storing).
InSpan(k) ==
    LET calls == InsideCalls(ops[k])
        first == Position(calls, "loadSession")
        last == Position(calls, "storeSession")
    IN  /\ Pending(k) # "none"
        /\ ops[k].where = "job"
        /\ first # 0
        /\ ops[k].pc >= first
        /\ last # 0 => ops[k].pc <= last

\* Call k has had its storeSession call return.
HasStored(k) ==
    LET last == Position(InsideCalls(ops[k]), "storeSession")
    IN  /\ last # 0
        /\ ops[k].where \in {"job", "done"}
        /\ ops[k].where = "job" => ops[k].pc > last

Listed(seq, x) == \E i \in 1 .. Len(seq) : seq[i] = x

\* C21: of the calls made for one address, from whichever instances, at most
\* one is between its loadSession and its storeSession at any time, and the
\* stored record holds the update of every call that has stored.
C21_SpansNeverOverlap ==
    /\ \A k, l \in 1 .. Len(ops) :
          (k # l /\ ops[k].address = ops[l].address)
              => ~(InSpan(k) /\ InSpan(l))
    /\ \A k \in 1 .. Len(ops) :
          HasStored(k) => Listed(records[ops[k].address], k)

\* Two calls for one address: the first has stored, the second has loaded
\* what the first stored and is about to store, a third waits in the queue.
C21_Witness ==
    \E k, l, m \in 1 .. Len(ops) :
        /\ k # l /\ l # m /\ k # m
        /\ ops[k].address = ops[l].address
        /\ ops[m].address = ops[l].address
        /\ HasStored(k)
        /\ Pending(l) = "storeSession"
        /\ Listed(ops[l].loaded, k)
        /\ ops[m].where = "job"
        /\ jobs[ops[m].bucket][ops[m].job].run = "queued"

\* C22: of the calls made for one address at most one has a Storage call
\* pending at any time.
C22_OneStorageCall ==
    \A k, l \in 1 .. Len(ops) :
        (k # l /\ ops[k].address = ops[l].address)
            => ~(Pending(k) # "none" /\ Pending(l) # "none")

(***************************************************************************)
(* Trial decryption over several sessions (SpecTrial): A sets up a second  *)
(* session while ciphertexts of the first are still under way, so a record *)
(* holds two sessions and a message may belong to the one tried second.    *)
(***************************************************************************)
MaxTrialInits == 2

\* First bytes a message may arrive with: versions (4,3), (2,3), (3,4).
VersionBytes == {67, 35, 52}

Reframed(message, byte) == [message EXCEPT !.version = byte]

\* The network hands e a ciphertext of the peer with any first byte; e's
\* application takes it for a WhisperMessage.
DeliverReframed(e) ==
    /\ Len(recvLog[e]) < MaxRecv
    /\ \E i \in 1 .. Len(sent[Peer(e)]), byte \in VersionBytes :
          LET message == Reframed(sent[Peer(e)][i].message, byte)
          IN  /\ message.type = 1
              /\ Ran(e, "decryptWhisperMessage", i,
                     decryptWhisperMessage(store[e], message, e, trusted[e],
                                           keyCount[e], now[e]),
                     TRUE)
              /\ recvLog' = [recvLog EXCEPT ![e] =
                               Append(@, [index |-> i,
                                          err |-> lastOp'.outcome.err,
                                          plaintext |->
                                              lastOp'.outcome.plaintext])]
              /\ subject' = [kind |-> "delivered", message |-> message,
                             who |-> e, at |-> Len(recvLog[e]) + 1]
    /\ UNCHANGED <<trusted, sent, inits, closes, flips, verdict>>

TrialNext ==
    \/ inits < MaxTrialInits /\ InitOutgoing("A", BOOLEAN)
                             /\ UNCHANGED <<queueVars, chainVars, jobVars, pureVars>>
    \/ \E e \in Endpoints : Encrypt(e) /\ UNCHANGED <<queueVars, chainVars, jobVars, pureVars>>
    \/ \E e \in Endpoints : Deliver(e) /\ UNCHANGED <<queueVars, chainVars, jobVars, pureVars>>
    \/ \E e \in Endpoints :
          DeliverReframed(e) /\ UNCHANGED <<queueVars, chainVars, jobVars>>

SpecTrial == Init /\ [][TrialNext]_vars

\* The last handler was decryptWhisperMessage and it returned a plaintext.
TrialDecrypted ==
    /\ lastOp.op = "decryptWhisperMessage"
    /\ lastOp.outcome.err = ""

\* The position in the loaded record of the session that decrypted.
Winner == sessionIndex(lastOp.loaded, lastOp.outcome.baseKey)

\* Whether session i of the loaded record, tried on its own, decrypts the
\* message the last handler was given.
DecryptsAlone(i) ==
    doDecryptWhisperMessage(Delivered, lastOp.loaded.sessions[i],
                            IdentityKey(lastOp.who),
                            generateKeyPair(lastOp.who, 1)).err = ""

HandedReframed ==
    /\ subject.kind = "delivered"
    /\ lastOp.op = "decryptWhisperMessage"
    /\ lastOp.who = subject.who
    /\ Len(recvLog[subject.who]) = subject.at
    /\ lastOp.loaded.exists

\* C24: handed a message with an incompatible version byte,
\* decryptWhisperMessage fails with that Error; handed one that no session
\* authenticates it fails with the aggregate SessionError.
C24_ErrorPropagation ==
    HandedReframed =>
        IF incompatibleVersion(subject.message.version)
        THEN lastOp.outcome.err = "Error"
        ELSE lastOp.outcome.err \in {"", "SessionError"}

\* The record has no session with closed = -1.
NoOpen(record) ==
    \A i \in 1 .. Len(record.sessions) : isClosed(record.sessions[i])

\* The record with every session marked open again.
Reopened(record) ==
    [record EXCEPT !.sessions =
        [i \in 1 .. Len(record.sessions) |->
            [record.sessions[i] EXCEPT !.indexInfo.closed = -1]]]

\* What trial decryption of the message the last handler was given makes of
\* a record.
TrialOf(record) ==
    decryptWithSessions(Delivered, record, getSessions(record), 1, lastOp.who,
                        0, 0)

\* C25: encrypt on no record or on a record without an open session fails
\* with SessionError and stores nothing; an encrypt that succeeds used a
\* session that was open; decryptWhisperMessage decrypts whatever it would
\* decrypt were the record's sessions all open.
C25_EncryptNeedsOpen ==
    /\ lastOp.op = "encrypt" =>
          IF ~lastOp.loaded.exists \/ NoOpen(lastOp.loaded)
          THEN /\ lastOp.outcome.err = "SessionError"
               /\ lastOp.outcome.stored = << >>
               /\ store[lastOp.who] = lastOp.loaded
          ELSE lastOp.outcome.err = "" =>
                  ~isClosed(LoadedSession(lastOp.outcome.baseKey))
    /\ (lastOp.op = "decryptWhisperMessage" /\ lastOp.loaded.exists) =>
          (TrialOf(Reopened(lastOp.loaded)).err = ""
              => lastOp.outcome.err \in {"", "UntrustedIdentityKeyError"})

\* The open session was closed; a message of the peer has just been decrypted
\* with the closed session, and an encrypt now would fail.
C25_Witness ==
    /\ TrialDecrypted
    /\ closes > 0
    /\ isClosed(LoadedSession(lastOp.outcome.baseKey))
    /\ NoOpen(store[lastOp.who])
    /\ encrypt(store[lastOp.who], "p", lastOp.who, TRUE,
               keyCount[lastOp.who]).err = "SessionError"

(***************************************************************************)
(* SessionRecord.deserialize and the migrations (SpecMigrate).  Of a       *)
(* serialized record only what migration reads and writes is kept: its     *)
(* version, its top-level registrationId, and of each session the          *)
(* registrationId and indexInfo.closed.                                    *)
(***************************************************************************)
MaxStoredSessions == 2

SESSION_RECORD_VERSION == "v1"

\* A field that is not there (undefined).
Absent == -1

\* if (x): a number is taken for present unless it is undefined or 0.
truthy(x) == x # Absent /\ x # 0

\* migrations[0].migrate
migrateV1(data) ==
    IF truthy(data.registrationId)
    THEN [data EXCEPT !.sessions =
            [i \in 1 .. Len(data.sessions) |->
                IF ~truthy(data.sessions[i].registrationId)
                THEN [data.sessions[i] EXCEPT
                         !.registrationId = data.registrationId]
                ELSE data.sessions[i]]]
    ELSE data

migrations == <<[version |-> "v1"]>>

\* SessionRecord.migrate from the head of its loop at index i
RECURSIVE migrateFrom(_, _, _, _)
migrateFrom(data, i, run, migratedToVersion) ==
    IF i <= Len(migrations)
    THEN IF run
         THEN migrateFrom(migrateV1(data), i + 1, run, migrations[i].version)
         ELSE migrateFrom(data, i + 1, migrations[i].version = data.version,
                          migratedToVersion)
    ELSE IF ~run THEN [err |-> "Error", data |-> data]
    ELSE IF migratedToVersion # "none"
    THEN [err |-> "", data |-> [data EXCEPT !.version = migratedToVersion]]
    ELSE [err |-> "", data |-> data]

\* SessionRecord.migrate
migrate(data) == migrateFrom(data, 1, data.version = "none", "none")

\* SessionRecord.deserialize; SessionEntry.deserialize refuses a session
\* whose registrationId is undefined.
deserialize(data) ==
    LET done(m) ==
            IF m.err # "" THEN [kind |-> "deserialized", err |-> m.err,
                                record |-> data]
            ELSE IF m.data.version # SESSION_RECORD_VERSION
            THEN [kind |-> "deserialized", err |-> "Error", record |-> data]
            ELSE IF \E i \in 1 .. Len(m.data.sessions) :
                       m.data.sessions[i].registrationId = Absent
            THEN [kind |-> "deserialized", err |-> "Error", record |-> data]
            ELSE [kind |-> "deserialized", err |-> "", record |-> m.data]
    IN  done(IF data.version # SESSION_RECORD_VERSION THEN migrate(data)
             ELSE [err |-> "", data |-> data])

\* Registration ids are 14-bit numbers, 0 among them.
StoredRegistrationIds == {Absent, 0, 5, 9}

StoredSessions ==
    [registrationId : StoredRegistrationIds, closed : {-1, 3}]

SerializedRecords ==
    [kind : {"record"}, version : {"none", "v0", "v1"},
     registrationId : StoredRegistrationIds \ {9},
     sessions : UNION {[1 .. n -> StoredSessions] :
                           n \in 0 .. MaxStoredSessions}]

MigrateInit ==
    /\ CipherInit
    /\ QueueIdle
    /\ ChainIdle
    /\ JobsIdle
    /\ subject \in SerializedRecords
    /\ verdict = NoSubject

Deserialize ==
    /\ verdict = NoSubject
    /\ verdict' = deserialize(subject)
    /\ UNCHANGED <<cipherVars, queueVars, chainVars, jobVars, subject>>

SpecMigrate == MigrateInit /\ [][Deserialize]_vars

\* C26: a record without version and with a top-level registrationId
\* deserializes to a v1 record in which a session that had no registrationId
\* has the top-level one and every other session has its own.
C26_Migration ==
    (/\ verdict # NoSubject
     /\ subject.version = "none"
     /\ subject.registrationId # Absent)
        => /\ verdict.err = ""
           /\ verdict.record.version = SESSION_RECORD_VERSION
           /\ Len(verdict.record.sessions) = Len(subject.sessions)
           /\ \A i \in 1 .. Len(subject.sessions) :
                 verdict.record.sessions[i].registrationId =
                     IF subject.sessions[i].registrationId = Absent
                     THEN subject.registrationId
                     ELSE subject.sessions[i].registrationId

(***************************************************************************)
(* ProtocolAddress (SpecAddress).  A string is a sequence of characters.   *)
(***************************************************************************)
MaxEncodedLen == 5
MaxIdLen == 2

AddressChars == {"a", ".", " ", "0", "1"}
DecimalDigits == <<"0", "1", "2", "3", "4", "5", "6", "7", "8", "9">>

isDigit(c) == \E d \in 1 .. 10 : DecimalDigits[d] = c

\* String.prototype.trim
RECURSIVE trim(_)
trim(str) ==
    IF str = << >> THEN str
    ELSE IF Head(str) = " " THEN trim(Tail(str))
    ELSE IF str[Len(str)] = " " THEN trim(SubSeq(str, 1, Len(str) - 1))
    ELSE str

\* parseInt(str, 10) of a run of digits
RECURSIVE parseInt(_)
parseInt(str) ==
    IF str = << >> THEN 0
    ELSE parseInt(SubSeq(str, 1, Len(str) - 1)) * 10
         + (CHOOSE d \in 1 .. 10 : DecimalDigits[d] = str[Len(str)]) - 1

\* `${deviceId}` of a non-negative integer
RECURSIVE decimal(_)
decimal(n) ==
    IF n < 10 THEN <<DecimalDigits[n + 1]>>
    ELSE Append(decimal(n \div 10), DecimalDigits[(n % 10) + 1])

\* String.prototype.lastIndexOf('.'), counted from 1; 0 when there is none
lastIndexOf(str) ==
    IF \E i \in 1 .. Len(str) : str[i] = "."
    THEN CHOOSE i \in 1 .. Len(str) :
            str[i] = "." /\ \A j \in i + 1 .. Len(str) : str[j] # "."
    ELSE 0

\* encodedAddress.match(/^.+\.\d+$/)
matchesEncoding(str) ==
    /\ lastIndexOf(str) > 1
    /\ lastIndexOf(str) < Len(str)
    /\ \A j \in lastIndexOf(str) + 1 .. Len(str) : isDigit(str[j])

\* new ProtocolAddress(id, deviceId), deviceId a non-negative safe integer
ProtocolAddress(id, deviceId) ==
    IF trim(id) = << >> THEN [err |-> "TypeError", id |-> id, deviceId |-> 0]
    ELSE IF \E i \in 1 .. Len(id) : id[i] = "."
    THEN [err |-> "TypeError", id |-> id, deviceId |-> 0]
    ELSE [err |-> "", id |-> trim(id), deviceId |-> deviceId]

\* ProtocolAddress.from
from(encodedAddress) ==
    LET lastDotIndex == lastIndexOf(encodedAddress)
        id == SubSeq(encodedAddress, 1, lastDotIndex - 1)
        deviceIdStr == SubSeq(encodedAddress, lastDotIndex + 1,
                              Len(encodedAddress))
    IN  IF trim(encodedAddress) = << >>
        THEN [err |-> "Error", id |-> << >>, deviceId |-> 0]
        ELSE IF ~matchesEncoding(encodedAddress)
        THEN [err |-> "Error", id |-> << >>, deviceId |-> 0]
        ELSE IF trim(id) = << >>
        THEN [err |-> "Error", id |-> id, deviceId |-> 0]
        ELSE ProtocolAddress(id, parseInt(deviceIdStr))

\* ProtocolAddress.toString
toString(address) == address.id \o <<".">> \o decimal(address.deviceId)

StringsUpTo(n) == UNION {[1 .. k -> AddressChars] : k \in 0 .. n}

AddressInit ==
    /\ CipherInit
    /\ QueueIdle
    /\ ChainIdle
    /\ JobsIdle
    /\ verdict = NoSubject
    /\ \/ subject \in [kind : {"encoded"}, chars : StringsUpTo(MaxEncodedLen)]
       \/ subject \in [kind : {"pair"}, id : StringsUpTo(MaxIdLen),
                       deviceId : {0, 1, 10, 907}]

\* ProtocolAddress.from(s)
ParseEncoded ==
    /\ verdict = NoSubject
    /\ subject.kind = "encoded"
    /\ verdict' = [kind |-> "parsed", address |-> from(subject.chars)]
    /\ UNCHANGED <<cipherVars, queueVars, chainVars, jobVars, subject>>

\* a = new ProtocolAddress(id, deviceId); ProtocolAddress.from(a.toString())
ParseConstructed ==
    /\ verdict = NoSubject
    /\ subject.kind = "pair"
    /\ LET a == ProtocolAddress(subject.id, subject.deviceId)
       IN  verdict' = [kind |-> "reparsed", constructed |-> a,
                       address |-> IF a.err = "" THEN from(toString(a))
                                   ELSE a]
    /\ UNCHANGED <<cipherVars, queueVars, chainVars, jobVars, subject>>

AddressNext == ParseEncoded \/ ParseConstructed

SpecAddress == AddressInit /\ [][AddressNext]_vars

\* The digits after the last dot are a decimal number as toString writes it.
CanonicalDeviceId(str) ==
    LET digits == SubSeq(str, lastIndexOf(str) + 1, Len(str))
    IN  decimal(parseInt(digits)) = digits

\* C27: from(s) succeeds on every s of the form id.digits with canonical
\* digits, whatever dots the id holds, and from(s).toString() is s; and
\* from(a.toString()) has the id and deviceId of every constructed address a.
C27_AddressRoundTrip ==
    /\ (/\ verdict.kind = "parsed"
        /\ matchesEncoding(subject.chars)
        /\ CanonicalDeviceId(subject.chars))
           => /\ verdict.address.err = ""
              /\ toString(verdict.address) = subject.chars
    /\ (verdict.kind = "reparsed" /\ verdict.constructed.err = "")
           => /\ verdict.address.err = ""
              /\ verdict.address.id = verdict.constructed.id
              /\ verdict.address.deviceId = verdict.constructed.deviceId

\* C28: when decryptWhisperMessage has decrypted a message, every session of
\* the record other than the one that decrypted it is stored exactly as it
\* was loaded.
C28_FailedTrialUntouched ==
    TrialDecrypted =>
        \A i \in 1 .. Len(lastOp.loaded.sessions) :
            i # Winner =>
                store[lastOp.who].sessions[i] = lastOp.loaded.sessions[i]

(***************************************************************************)
(* A ratchet step past a receiving chain (SpecStep).  A has sent on its     *)
(* first chain, has B's answer and with it a new ephemeral key; what it     *)
(* sends next names in previousCounter the last counter of its first        *)
(* chain, as the protocol has it.                                           *)
(***************************************************************************)
MaxStepRecv == 3

\* Last counters the peer may have reached on its first chain.
PreviousCounters == {0, 2}

\* The n-th ciphertext of the peer's present sending chain.
StepCiphertext(n, previousCounter) ==
    WhisperMessage(PeerEphemeral, n, previousCounter,
                   messageKeyOf(chainKeyAfter(
                       PeerSession.chains[PeerEphemeral].chainKey.key, n)),
                   "p", IdentityKey("A"), IdentityKey("B"))

\* B is handed a ciphertext of the chain A began after B's answer.
DeliverStepped ==
    /\ recvLog["A"] # << >>
    /\ recvLog["A"][1].err = ""
    /\ Len(recvLog["B"]) < MaxStepRecv
    /\ \E n \in 0 .. 1, previousCounter \in PreviousCounters :
          LET message == StepCiphertext(n, previousCounter)
          IN  /\ Receive("B", message, n)
              /\ recvLog' = [recvLog EXCEPT !["B"] =
                               Append(@, [index |-> n,
                                          err |-> lastOp'.outcome.err,
                                          plaintext |->
                                              lastOp'.outcome.plaintext])]
              /\ subject' = [kind |-> "delivered", message |-> message,
                             who |-> "B", at |-> Len(recvLog["B"]) + 1]
    /\ UNCHANGED <<trusted, sent, inits, closes, flips, verdict>>

StepNext ==
    \/ ChainHandshake /\ UNCHANGED <<queueVars, chainVars, jobVars, pureVars>>
    \/ /\ sent["B"] = << >>
       /\ recvLog["B"] # << >>
       /\ Encrypt("B")
       /\ UNCHANGED <<queueVars, chainVars, jobVars, pureVars>>
    \/ /\ recvLog["A"] = << >>
       /\ Deliver("A")
       /\ UNCHANGED <<queueVars, chainVars, jobVars, pureVars>>
    \/ DeliverStepped /\ UNCHANGED <<queueVars, chainVars, jobVars>>

SpecStep == Init /\ [][StepNext]_vars

\* The last handler decrypted the message in subject with a DH ratchet step,
\* on a session that held a receiving chain under the remote ephemeral key
\* it had then.
SteppedPastChain ==
    /\ HandedReframed
    /\ lastOp.outcome.err = ""
    /\ lastOp.outcome.stepped
    /\ hasChain(LoadedSession(lastOp.outcome.baseKey),
                LoadedSession(lastOp.outcome.baseKey)
                    .currentRatchet.lastRemoteEphemeralKey)

\* C29: after such a step the stored session holds the previous receiving
\* chain filled up to the message's previousCounter and without chain key.
C29_PreviousChainClosed ==
    SteppedPastChain =>
        LET old == LoadedSession(lastOp.outcome.baseKey)
                       .currentRatchet.lastRemoteEphemeralKey
            chain == getChain(StoredSession(lastOp.who,
                                            lastOp.outcome.baseKey), old)
        IN  /\ chain.chainKey.has # "buffer"
            /\ chain.chainKey.counter >= subject.message.previousCounter

(***************************************************************************)
(* fillMessageKeys on chains as a session holds them in memory and as      *)
(* they come back from serialize / deserialize (SpecFill).                  *)
(***************************************************************************)
MaxFilled == 1
MaxRequested == 3

\* SessionEntry._serialize_chains, one chain: keys as base64 strings, a
\* missing chain key as null.
_serialize_chain(c) ==
    [chainKey |-> [counter |-> c.chainKey.counter,
                   key |-> [base64 |-> c.chainKey.key],
                   has |-> IF c.chainKey.has = "buffer" THEN "string"
                           ELSE "null"],
     chainType |-> c.chainType,
     messageKeys |-> [i \in DOMAIN c.messageKeys |->
                         [base64 |-> c.messageKeys[i]]]]

\* SessionEntry._deserialize_chains, one chain
_deserialize_chain(c) ==
    [chainKey |-> [counter |-> c.chainKey.counter,
                   key |-> c.chainKey.key.base64,
                   has |-> IF c.chainKey.has = "string" THEN "buffer"
                           ELSE "null"],
     chainType |-> c.chainType,
     messageKeys |-> [i \in DOMAIN c.messageKeys |->
                         c.messageKeys[i].base64]]

\* A receiving chain that was filled up to counter, some of whose message
\* keys have been used, and that was closed or not.
HeldChain(counter, closed, unused) ==
    LET first == [prk |-> <<{1, 2}>>, step |-> 0]
        open == [NewChain(chainKeyAfter(first, counter + 1),
                          ChainType.RECEIVING)
                    EXCEPT !.chainKey.counter = counter,
                           !.messageKeys =
                               [i \in unused |->
                                   messageKeyOf(chainKeyAfter(first, i))]]
    IN  IF closed THEN closeChain(open) ELSE open

FillInit ==
    /\ CipherInit
    /\ QueueIdle
    /\ ChainIdle
    /\ JobsIdle
    /\ verdict = NoSubject
    /\ \E counter \in -1 .. MaxFilled, closed \in BOOLEAN,
          requested \in 0 .. MaxRequested :
          \E unused \in SUBSET (0 .. counter) :
              subject = [kind |-> "chain",
                         chain |-> HeldChain(counter, closed, unused),
                         requested |-> requested]

\* What fillMessageKeys(given, requested) did.
Filled(given, requested) ==
    LET r == fillMessageKeys(given, requested)
    IN  [kind |-> "filled", given |-> given, err |-> r.err,
         changed |-> IF r.err = "" THEN given.chainKey.counter < requested
                     ELSE r.chain # given]

\* fillMessageKeys on the chain as it is in memory
FillHeld ==
    /\ verdict = NoSubject
    /\ verdict' = Filled(subject.chain, subject.requested)
    /\ UNCHANGED <<cipherVars, queueVars, chainVars, jobVars, subject>>

\* fillMessageKeys on the chain of the deserialized session
FillDeserialized ==
    /\ verdict = NoSubject
    /\ verdict' = Filled(_deserialize_chain(_serialize_chain(subject.chain)),
                         subject.requested)
    /\ UNCHANGED <<cipherVars, queueVars, chainVars, jobVars, subject>>

FillNext == FillHeld \/ FillDeserialized

SpecFill == FillInit /\ [][FillNext]_vars

LoadedReceivingChain ==
    lastOp.loaded.sessions[sessionIndex(lastOp.loaded,
                                        PeerSession.indexInfo.baseKey)]
        .chains[PeerEphemeral]

\* The message keys the chain held while the last handler worked on it: those
\* it was loaded with and those fillMessageKeys derived up to the message's
\* counter.
KeysHeld ==
    LET c0 == LoadedReceivingChain.chainKey.counter
    IN  Cardinality(DOMAIN LoadedReceivingChain.messageKeys)
        + (IF lastOp.index > c0 THEN lastOp.index - c0 ELSE 0)

\* C31: no chain of a stored session holds more than MAX_MESSAGE_KEYS_GAP
\* message keys, and no chain held more while a ciphertext of the burst was
\* decrypted, in order or ahead of its turn.
C31_SkippedKeysBounded ==
    /\ \A e \in Endpoints : \A i \in 1 .. Len(store[e].sessions) :
          \A k \in DOMAIN store[e].sessions[i].chains :
              Cardinality(DOMAIN store[e].sessions[i].chains[k].messageKeys)
                  <= MAX_MESSAGE_KEYS_GAP
    /\ (ChainDelivery /\ lastOp.outcome.err = "")
          => KeysHeld <= MAX_MESSAGE_KEYS_GAP

\* The ciphertext with counter MAX_MESSAGE_KEYS_GAP - 1 was decrypted ahead
\* of all others: the chain held MAX_MESSAGE_KEYS_GAP keys.
C31_Witness ==
    /\ ChainDelivery
    /\ lastOp.outcome.err = ""
    /\ KeysHeld = MAX_MESSAGE_KEYS_GAP

(***************************************************************************)
(* The pendingPreKey of a session, from initOutgoing to the first decrypt. *)
(***************************************************************************)
\* The session of the record the last handler loaded is still stored, and
\* under the same base key.
KeptSessions ==
    {i \in 1 .. Len(lastOp.loaded.sessions) :
        sessionIndex(store[lastOp.who],
                     lastOp.loaded.sessions[i].indexInfo.baseKey) # 0}

UsedSessionKept ==
    /\ lastOp.outcome.err = ""
    /\ sessionIndex(store[lastOp.who], lastOp.outcome.baseKey) # 0

\* C32: a session initOutgoing creates is stored with its pendingPreKey set;
\* encrypt returns type 3 exactly when the open session it loaded has a
\* pendingPreKey and type 1 otherwise, and leaves the pendingPreKey as it
\* was; a successful decrypt stores the session without pendingPreKey; no
\* handler gives a pendingPreKey to a stored session that had none.
C32_PendingPreKeyLifecycle ==
    /\ (lastOp.op = "initOutgoing" /\ UsedSessionKept) =>
          /\ StoredSession(lastOp.who, lastOp.outcome.baseKey)
                 .pendingPreKey.present
          /\ StoredSession(lastOp.who, lastOp.outcome.baseKey)
                 .pendingPreKey.baseKey = lastOp.outcome.baseKey
    /\ (lastOp.op = "encrypt" /\ lastOp.outcome.err = "") =>
          /\ lastOp.outcome.message.type =
                IF LoadedSession(lastOp.outcome.baseKey).pendingPreKey.present
                THEN 3 ELSE 1
          /\ UsedSessionKept =>
                StoredSession(lastOp.who, lastOp.outcome.baseKey).pendingPreKey
                    = LoadedSession(lastOp.outcome.baseKey).pendingPreKey
    /\ (Decrypted /\ UsedSessionKept) =>
          ~StoredSession(lastOp.who, lastOp.outcome.baseKey)
               .pendingPreKey.present
    /\ \A i \in KeptSessions :
          ~lastOp.loaded.sessions[i].pendingPreKey.present =>
              ~StoredSession(lastOp.who,
                             lastOp.loaded.sessions[i].indexInfo.baseKey)
                   .pendingPreKey.present

\* An initiator whose session lost its pendingPreKey to a decrypted reply
\* encrypts again on that session.
C32_Witness ==
    /\ lastOp.op = "encrypt"
    /\ UsedSessionKept
    /\ lastOp.outcome.message.type = 1
    /\ LoadedSession(lastOp.outcome.baseKey).indexInfo.baseKeyType
           = BaseKeyType.OURS
    /\ \E k \in 1 .. Len(sent[lastOp.who]) :
          /\ sent[lastOp.who][k].message.type = 3
          /\ sent[lastOp.who][k].message.baseKey = lastOp.outcome.baseKey

(***************************************************************************)
(* SessionBuilder.initIncoming and the pre-key ids a PreKeyWhisperMessage  *)
(* may name: the one the receiver holds, one it never held, and 0.         *)
(***************************************************************************)
PreKeyIds == {0, 7, 9}
SignedPreKeyIds == {1, 42, 99}

Renumbered(message, preKeyId, signedPreKeyId) ==
    [message EXCEPT !.hasPreKeyId = TRUE, !.preKeyId = preKeyId,
                    !.signedPreKeyId = signedPreKeyId]

\* The network hands e a PreKeyWhisperMessage of the peer that names any
\* pre-key and signed pre-key.
DeliverRenumbered(e) ==
    /\ Len(recvLog[e]) < MaxRecv
    /\ \E i \in 1 .. Len(sent[Peer(e)]), preKeyId \in PreKeyIds,
          signedPreKeyId \in SignedPreKeyIds :
          LET message == Renumbered(sent[Peer(e)][i].message, preKeyId,
                                    signedPreKeyId)
          IN  /\ message.type = 3
              /\ Receive(e, message, i)
              /\ recvLog' = [recvLog EXCEPT ![e] =
                               Append(@, [index |-> i,
                                          err |-> lastOp'.outcome.err,
                                          plaintext |->
                                              lastOp'.outcome.plaintext])]
              /\ subject' = [kind |-> "delivered", message |-> message,
                             who |-> e, at |-> Len(recvLog[e]) + 1]
    /\ UNCHANGED <<trusted, sent, inits, closes, flips, verdict>>

PreKeyNext ==
    \/ inits < MaxInit /\ InitOutgoing("A", BOOLEAN)
                       /\ UNCHANGED <<queueVars, chainVars, jobVars, pureVars>>
    \/ \E e \in Endpoints : Encrypt(e) /\ UNCHANGED <<queueVars, chainVars, jobVars, pureVars>>
    \/ \E e \in Endpoints : Deliver(e) /\ UNCHANGED <<queueVars, chainVars, jobVars, pureVars>>
    \/ \E e \in Endpoints :
          DeliverRenumbered(e) /\ UNCHANGED <<queueVars, chainVars, jobVars>>
    \/ FlipTrust("B") /\ UNCHANGED <<queueVars, chainVars, jobVars, pureVars>>

SpecPreKey == Init /\ [][PreKeyNext]_vars

\* The last handler was decryptPreKeyWhisperMessage on a renumbered message.
HandedRenumbered ==
    /\ subject.kind = "delivered"
    /\ lastOp.op = "decryptPreKeyWhisperMessage"
    /\ subject.who = lastOp.who
    /\ subject.at = Len(recvLog[lastOp.who])

\* The record initIncoming was given, and what it made of it.
GivenRecord == IF lastOp.loaded.exists THEN lastOp.loaded ELSE NewRecord

Built ==
    initIncoming(GivenRecord, subject.message, lastOp.who,
                 lastOp.outcome.asked[1], lastOp.loadedPreKeys,
                 now[lastOp.who])

\* initIncoming got as far as loading the pre-keys: the identity is trusted
\* and the record has no session under the message's base key.
LoadsPreKeys ==
    /\ HandedRenumbered
    /\ lastOp.outcome.asked = <<TRUE>>
    /\ sessionIndex(GivenRecord, subject.message.baseKey) = 0

\* C33: initIncoming fails with PreKeyError when the message names a pre-key
\* (0 included) that storage does not hold or a signed pre-key that storage
\* does not hold, and then leaves the record as it was given.
C33_PreKeyError ==
    (/\ LoadsPreKeys
     /\ \/ subject.message.preKeyId \notin lastOp.loadedPreKeys
        \/ subject.message.signedPreKeyId # SignedPreKeyId(lastOp.who)) =>
        /\ Built.err = "PreKeyError"
        /\ Built.record = GivenRecord
        /\ lastOp.outcome.err = "PreKeyError"
        /\ store[lastOp.who] = lastOp.loaded

(***************************************************************************)
(* The two sides of a handshake: the session initOutgoing made for a base  *)
(* key and the session initIncoming makes from the PreKeyWhisperMessage    *)
(* that carries that base key.                                             *)
(***************************************************************************)
\* The root key a ratchet step started from: deriveSecrets names its output
\* by the salt extended with one agreement.
rootKeyBefore(rootKey) == SubSeq(rootKey, 1, Len(rootKey) - 1)

\* What initIncoming makes of the message the last handler was given.
Responded ==
    initIncoming(GivenRecord, Delivered, lastOp.who, lastOp.outcome.asked[1],
                 lastOp.loadedPreKeys, now[lastOp.who])

\* The last handler's initIncoming built a session, and the initiator still
\* stores its own session of that handshake as initOutgoing made it: no
\* decryption has stepped its ratchet since.
Responds ==
    /\ lastOp.op = "decryptPreKeyWhisperMessage"
    /\ sessionIndex(GivenRecord, Delivered.baseKey) = 0
    /\ Responded.err = ""
    /\ sessionIndex(store[Peer(lastOp.who)], Delivered.baseKey) # 0
    /\ DOMAIN StoredSession(Peer(lastOp.who), Delivered.baseKey).chains
          = {Delivered.ephemeralKey}

ResponderSession ==
    Responded.record.sessions[sessionIndex(Responded.record,
                                           Delivered.baseKey)]
InitiatorSession == StoredSession(Peer(lastOp.who), Delivered.baseKey)

\* C34: the session initIncoming builds has the root key initSession gave
\* the initiator (the one its sending ratchet started from), made of three
\* agreements without a one-time pre-key and of four with one; and once the
\* message is decrypted the responder's receiving chain under the
\* initiator's ratchet key starts from the key of the initiator's sending
\* chain.
C34_HandshakeAgreement ==
    Responds =>
        /\ ResponderSession.currentRatchet.rootKey
              = rootKeyBefore(InitiatorSession.currentRatchet.rootKey)
        /\ Len(ResponderSession.currentRatchet.rootKey)
              = IF Delivered.hasPreKeyId THEN 4 ELSE 3
        /\ lastOp.outcome.err = "" =>
              LET received == StoredSession(lastOp.who, Delivered.baseKey)
                  key == Delivered.ephemeralKey
              IN  /\ hasChain(received, key)
                  /\ received.chains[key].chainType = ChainType.RECEIVING
                  /\ InitiatorSession.chains[key].chainType = ChainType.SENDING
                  /\ received.chains[key].chainKey.key
                        = InitiatorSession.chains[key].chainKey.key

\* The responder has decrypted a first message of a handshake with a
\* one-time pre-key and one of a handshake without.
C34_Witness ==
    /\ Responds
    /\ lastOp.outcome.err = ""
    /\ \E i \in 1 .. Len(lastOp.loaded.sessions) :
          /\ lastOp.loaded.sessions[i].indexInfo.baseKeyType = BaseKeyType.THEIRS
          /\ DOMAIN lastOp.loaded.sessions[i].chains # {}
          /\ \E k \in 1 .. Len(sent[Peer(lastOp.who)]) :
                /\ sent[Peer(lastOp.who)][k].message.type = 3
                /\ sent[Peer(lastOp.who)][k].message.baseKey
                      = lastOp.loaded.sessions[i].indexInfo.baseKey
                /\ sent[Peer(lastOp.who)][k].message.hasPreKeyId
                      # Delivered.hasPreKeyId

toBase64(buffer) == [base64 |-> buffer]
fromBase64(string) == string.base64

\* SessionEntry.deserialize that takes every session for an open one.
deserializeOpen(data) ==
    [registrationId |-> data.registrationId,
     currentRatchet |->
        [rootKey |-> fromBase64(data.currentRatchet.rootKey),
         ephemeralKeyPair |-> fromBase64(data.currentRatchet.ephemeralKeyPair),
         lastRemoteEphemeralKey |->
             fromBase64(data.currentRatchet.lastRemoteEphemeralKey),
         previousCounter |-> data.currentRatchet.previousCounter],
     indexInfo |->
        [created |-> data.indexInfo.created,
         used |-> data.indexInfo.used,
         remoteIdentityKey |-> fromBase64(data.indexInfo.remoteIdentityKey),
         baseKey |-> fromBase64(data.indexInfo.baseKey),
         baseKeyType |-> data.indexInfo.baseKeyType,
         closed |-> -1],
     chains |-> [k \in DOMAIN data._chains |->
                    _deserialize_chain(data._chains[k])],
     pendingPreKey |->
        IF "pendingPreKey" \in DOMAIN data
        THEN [present |-> TRUE,
              signedKeyId |-> data.pendingPreKey.signedKeyId,
              baseKey |-> fromBase64(data.pendingPreKey.baseKey),
              hasPreKeyId |-> "preKeyId" \in DOMAIN data.pendingPreKey,
              preKeyId |-> IF "preKeyId" \in DOMAIN data.pendingPreKey
                           THEN data.pendingPreKey.preKeyId ELSE 0]
        ELSE NoPendingPreKey]

\* SessionEntry.serialize
SessionEntry_serialize(session) ==
    LET data ==
            [registrationId |-> session.registrationId,
             currentRatchet |->
                [ephemeralKeyPair |->
                     toBase64(session.currentRatchet.ephemeralKeyPair),
                 lastRemoteEphemeralKey |->
                     toBase64(session.currentRatchet.lastRemoteEphemeralKey),
                 previousCounter |-> session.currentRatchet.previousCounter,
                 rootKey |-> toBase64(session.currentRatchet.rootKey)],
             indexInfo |->
                [baseKey |-> toBase64(session.indexInfo.baseKey),
                 baseKeyType |-> session.indexInfo.baseKeyType,
                 closed |-> session.indexInfo.closed,
                 used |-> session.indexInfo.used,
                 created |-> session.indexInfo.created,
                 remoteIdentityKey |->
                     toBase64(session.indexInfo.remoteIdentityKey)],
             _chains |-> [k \in DOMAIN session.chains |->
                             _serialize_chain(session.chains[k])]]
        pending ==
            [signedKeyId |-> session.pendingPreKey.signedKeyId,
             baseKey |-> toBase64(session.pendingPreKey.baseKey)]
        numbered ==
            IF session.pendingPreKey.hasPreKeyId
            THEN pending @@ [preKeyId |-> session.pendingPreKey.preKeyId]
            ELSE pending
    IN  IF session.pendingPreKey.present
        THEN data @@ [pendingPreKey |-> numbered]
        ELSE data

\* SessionEntry.deserialize
SessionEntry_deserialize(data) ==
    [deserializeOpen(data) EXCEPT !.indexInfo.closed = data.indexInfo.closed]

\* SessionRecord.serialize
SessionRecord_serialize(record) ==
    [_sessions |-> [i \in 1 .. Len(record.sessions) |->
                       SessionEntry_serialize(record.sessions[i])],
     version |-> SESSION_RECORD_VERSION]

\* SessionRecord.deserialize of data at the current version: no migration
SessionRecord_deserialize(data) ==
    [exists |-> TRUE,
     sessions |-> [i \in 1 .. Len(data._sessions) |->
                      SessionEntry_deserialize(data._sessions[i])]]

RoundTrip(record) == SessionRecord_deserialize(SessionRecord_serialize(record))

Unregistered ==
    /\ subject.kind = "record"
    /\ subject.version = "none"
    /\ subject.registrationId = Absent
    /\ \E i \in 1 .. Len(subject.sessions) :
          /\ subject.sessions[i].closed = -1
          /\ subject.sessions[i].registrationId = Absent

\* C37: deserialize of such a record does not throw; it returns a record.
C37_MigrationLogsOnly ==
    (Unregistered /\ verdict.kind = "deserialized") => verdict.err = ""

(***************************************************************************)
(* Every call of a public method settles (SpecSettle): the calls of        *)
(* SpecJobs and hasOpenSession, with every pending Storage call returning  *)
(* in the end and every executor that can resume resuming.                 *)
(***************************************************************************)
MaxSettleOps == 2

PublicMethods == OpKinds \cup {"hasOpenSession"}

StorageCalls ==
    {"isTrustedIdentity", "getOurIdentity", "loadSession", "storeSession",
     "getOurRegistrationId", "loadPreKey", "loadSignedPreKey", "removePreKey"}

SettleNext ==
    \/ \E kind \in PublicMethods, address \in Buckets, throws \in BOOLEAN :
          /\ Len(ops) < MaxSettleOps
          /\ CallOp(kind, address, throws)
          /\ UNCHANGED <<cipherVars, chainVars, pureVars>>
    \/ \E k \in 1 .. Len(ops) :
          Returns(k) /\ UNCHANGED <<cipherVars, chainVars, pureVars>>
    \/ \E b \in Buckets :
          Resume(b) /\ UNCHANGED <<cipherVars, chainVars, jobVars, pureVars>>

SettleFairness ==
    /\ \A k \in 1 .. MaxSettleOps :
          WF_vars(/\ k <= Len(ops)
                  /\ Returns(k)
                  /\ UNCHANGED <<cipherVars, chainVars, pureVars>>)
    /\ \A b \in Buckets :
          WF_vars(Resume(b) /\ UNCHANGED <<cipherVars, chainVars, jobVars, pureVars>>)

SpecSettle == Init /\ [][SettleNext]_vars /\ SettleFairness

\* Call k has run to its end and the promise of its job is settled.
Settled(k) ==
    /\ k <= Len(ops)
    /\ ops[k].where = "done"
    /\ jobs[ops[k].bucket][ops[k].job].settled # "no"

\* C38: whatever a running job awaits is a Storage call, never a job of its
\* own bucket; and every call of encrypt, decryptWhisperMessage,
\* decryptPreKeyWhisperMessage, initOutgoing, hasOpenSession and
\* closeOpenSession eventually settles.
C38_EveryCallSettles ==
    /\ [](\A k \in 1 .. Len(ops) :
            (/\ ops[k].where = "job"
             /\ jobs[ops[k].bucket][ops[k].job].run = "inFlight")
                => Pending(k) \in StorageCalls)
    /\ \A k \in 1 .. MaxSettleOps : (Len(ops) >= k) ~> Settled(k)

\* Two calls on one address, a decryptPreKeyWhisperMessage that ran all its
\* Storage calls and a hasOpenSession queued behind it, have both settled.
C38_Witness ==
    /\ Len(ops) = 2
    /\ ops[1].address = ops[2].address
    /\ ops[1].kind = "decryptPreKeyWhisperMessage"
    /\ ~ops[1].throws
    /\ ops[2].kind = "hasOpenSession"
    /\ ops[2].job = ops[1].job + 1
    /\ Settled(1)
    /\ Settled(2)

(***************************************************************************)
(* SessionRecord.setSession on the objects of a record (SpecSet).  The     *)
(* sessions of a record are objects kept under the base64 of their base    *)
(* key; the session handed to setSession is either one of these objects or *)
(* another object.                                                         *)
(***************************************************************************)
MaxHeld == 2
HeldBaseKeys == {101, 102, 103}

\* What SessionEntry.destroy leaves of a session: no chains, currentRatchet,
\* indexInfo and pendingPreKey null.
destroy(session) ==
    [session EXCEPT
        !.chains = [k \in {} |-> NewChain(NoChainKey, 0)],
        !.currentRatchet = [rootKey |-> << >>, ephemeralKeyPair |-> NoKey,
                            lastRemoteEphemeralKey |-> NoKey,
                            previousCounter |-> 0],
        !.indexInfo = [created |-> 0, used |-> 0, remoteIdentityKey |-> NoKey,
                       baseKey |-> NoKey, baseKeyType |-> 0, closed |-> -1],
        !.pendingPreKey = NoPendingPreKey]

\* The place of key among the property names of this.sessions, 0 if absent.
keyIndex(keys, key) ==
    IF \E i \in 1 .. Len(keys) : keys[i] = key
    THEN CHOOSE i \in 1 .. Len(keys) : keys[i] = key
    ELSE 0

\* SessionRecord.setSession(session) on the record whose property names are
\* keys and whose objects are sessions; isStored tells that session is the
\* object the record holds under the session's base key.
setSessionObject(keys, sessions, session, isStored) ==
    LET key == session.indexInfo.baseKey
        i == keyIndex(keys, key)
    IN  IF i = 0
        THEN [kind |-> "set", keys |-> Append(keys, key),
              sessions |-> Append(sessions, session)]
        ELSE [kind |-> "set", keys |-> keys,
              \* secureDestroySession(this.sessions[key]) acts on the object
              \* that is about to be stored when the two are one object
              sessions |-> [sessions EXCEPT
                               ![i] = IF isStored THEN destroy(session)
                                      ELSE session]]

\* A session as initIncoming builds it for a base key, closed or not, with a
\* receiving chain or without.
HeldSession(baseKey, closed, chained) ==
    LET built == initSession(FALSE, NoKey, SignedPreKeyPair("B"),
                             IdentityKey("A"), baseKey, NoKey,
                             RegistrationId("A"), IdentityKey("B"), NoKey, 1)
        stepped == IF chained
                   THEN calculateRatchet(built, baseKey + 1, FALSE).session
                   ELSE built
    IN  IF closed THEN [stepped EXCEPT !.indexInfo.closed = 2] ELSE stepped

HeldSessions ==
    {HeldSession(baseKey, closed, chained) :
        baseKey \in HeldBaseKeys, closed \in BOOLEAN, chained \in BOOLEAN}

\* Records of up to MaxHeld sessions, one under each base key.
HeldRecords ==
    {sessions \in UNION {[1 .. n -> HeldSessions] : n \in 0 .. MaxHeld} :
        \A i, j \in 1 .. Len(sessions) :
            i # j => sessions[i].indexInfo.baseKey
                        # sessions[j].indexInfo.baseKey}

SetInit ==
    /\ CipherInit
    /\ QueueIdle
    /\ ChainIdle
    /\ JobsIdle
    /\ verdict = NoSubject
    /\ \E sessions \in HeldRecords :
          \/ \E i \in 1 .. Len(sessions) :
                subject = [kind |-> "setSession", sessions |-> sessions,
                           session |-> sessions[i], isStored |-> TRUE]
          \/ \E session \in HeldSessions :
                subject = [kind |-> "setSession", sessions |-> sessions,
                           session |-> session, isStored |-> FALSE]

SetSession ==
    /\ verdict = NoSubject
    /\ verdict' = setSessionObject(
                      [i \in 1 .. Len(subject.sessions) |->
                          subject.sessions[i].indexInfo.baseKey],
                      subject.sessions, subject.session, subject.isStored)
    /\ UNCHANGED <<cipherVars, queueVars, chainVars, jobVars, subject>>

SpecSet == SetInit /\ [][SetSession]_vars

\* The position in the given record of the base key of the session set.
SetAt ==
    keyIndex([i \in 1 .. Len(subject.sessions) |->
                 subject.sessions[i].indexInfo.baseKey],
             subject.session.indexInfo.baseKey)

\* setSession replaces the entry under an existing base key by a different
\* session, appends under a new one, and keeps one session per base key.
SetReplaces ==
    verdict.kind = "set" =>
        /\ (~subject.isStored /\ SetAt # 0) =>
              /\ Len(verdict.sessions) = Len(subject.sessions)
              /\ verdict.sessions[SetAt] = subject.session
              /\ \A i \in 1 .. Len(subject.sessions) :
                    i # SetAt => verdict.sessions[i] = subject.sessions[i]
        /\ SetAt = 0 => verdict.sessions = Append(subject.sessions,
                                                   subject.session)
        /\ \A i, j \in 1 .. Len(verdict.keys) :
              i # j => verdict.keys[i] # verdict.keys[j]

\* C39: setSession of a session that the record already holds under its
\* base key leaves the record and the session as they were (indexInfo,
\* currentRatchet and chains still there); setSession of a different
\* session under an existing base key replaces the entry; the record never
\* holds two sessions under one base key.
C39_SetSessionIdempotent ==
    /\ SetReplaces
    /\ (verdict.kind = "set" /\ subject.isStored) =>
          /\ verdict.sessions = subject.sessions
          /\ verdict.sessions[SetAt].indexInfo = subject.session.indexInfo
          /\ verdict.sessions[SetAt].currentRatchet
                = subject.session.currentRatchet
          /\ verdict.sessions[SetAt].chains = subject.session.chains

(***************************************************************************)
(* keyhelper.generateRegistrationId on the two bytes randomBytes(2) gives  *)
(* it (SpecRegistration).                                                  *)
(***************************************************************************)
FirstBytes == 0 .. 255
SecondBytes == {0, 1, 63, 64, 255}

\* Uint16Array.from(iterable): one 16-bit element for each value the
\* iterable yields; a Buffer yields its bytes.
Uint16Array_from(bytes) == [i \in 1 .. Len(bytes) |-> bytes[i] % 65536]

\* x & 0x3fff
low14(x) == x % 16384

\* generateRegistrationId, randomBytes being what nodeCrypto.randomBytes(2)
\* returned
generateRegistrationId(randomBytes) == low14(Uint16Array_from(randomBytes)[1])

\* The 16-bit little-endian number of two bytes.
u16_le(b0, b1) == b1 * 256 + b0

RegistrationInit ==
    /\ CipherInit
    /\ QueueIdle
    /\ ChainIdle
    /\ JobsIdle
    /\ verdict = NoSubject
    /\ \E b0 \in FirstBytes, b1 \in SecondBytes :
          subject = [kind |-> "randomBytes", bytes |-> <<b0, b1>>]

GenerateRegistrationId ==
    /\ verdict = NoSubject
    /\ verdict' = [kind |-> "registrationId",
                   value |-> generateRegistrationId(subject.bytes)]
    /\ UNCHANGED <<cipherVars, queueVars, chainVars, jobVars, subject>>

SpecRegistration == RegistrationInit /\ [][GenerateRegistrationId]_vars

\* C40: the registration id generated from the random bytes b0, b1 is
\* ((b1 << 8) | b0) & 0x3fff.
C40_RegistrationId ==
    verdict.kind = "registrationId" =>
        verdict.value = low14(u16_le(subject.bytes[1], subject.bytes[2]))
====
